---- MODULE Spec2Model ----
(***************************************************************************)
(* A model of the fitbit-sw synchronisation tools: the OAuth token         *)
(* lifecycle (lib/auth.py), the heart-rate sync of one date and of a whole *)
(* month (sync/sync_heart_rate.py, sync/sync_heart_rate_month.py) and the  *)
(* sleep sync (sync/sync_sleep.py).                                        *)
(*                                                                         *)
(* Conventions.  A Python value that may be None or missing is a sequence  *)
(* of length at most one: <<>> is None / missing key, <<v>> is v.  A date  *)
(* 'YYYY-MM-DD' is the tuple <<y, m, d>>; a time of day is a minute index. *)
(* A database table with a unique key is a function from the keys that    *)
(* are present to the row stored under the key.                            *)
(***************************************************************************)
EXTENDS Integers, Sequences, FiniteSets, TLC

VARIABLES
    \* ---- the relational store (committed state) -------------------------
    hrDaily,        \* heart_rate_daily: date -> row
    hrIntraday,     \* heart_rate_intraday: <<date, time>> -> heart_rate
    \* ---- the last call of HeartRateSync.sync_heart_rate_date ------------
    hrLast,         \* what the call did: exception, return value, commit/rollback
    hrCalls,        \* number of calls made so far (capped by MaxCalls)
    hrFirst,        \* ghost: <<date, time>> -> value of the first committed write
    \* ---- sync_heart_rate_month.main -------------------------------------
    pc,             \* position of main
    year, month,    \* sys.argv[1], sys.argv[2]
    dates,          \* list(generate_date_range(year, month))
    idx,            \* number of loop iterations finished
    total_daily, total_intraday,
    days_processed, \* the number printed as 'Total days processed'
    attempted,      \* ghost: the dates sync_heart_rate_date was called with, in order
    deviations,     \* ghost: dates of this run whose sync was not the nominal one
    failed,         \* ghost: dates of this run whose sync raised
    runDaily,       \* ghost: daily keys written by the committed transactions of this run
    runIntraday,    \* ghost: intraday statements executed by those transactions
    \* ---- re-running one date (harness state) ----------------------------
    rsReq,          \* the request made twice: date, payload, database outcomes
    rsFirst,        \* ghost: the store after the first of the two runs
    \* ---- SleepSync._calculate_sleep_score -------------------------------
    scSession,      \* the session the score is calculated for
    scScore,        \* the value returned (None before the call)
    \* ---- FitbitAuth ----------------------------------------------------
    access_token, refresh_token, token_type, expires_in,
    authPc,         \* "idle", or "waiting" inside authorize for the callback
    posts,          \* requests sent to the token endpoint so far
    authOps,        \* operations of FitbitAuth that have ended so far
    authLast,       \* the last operation: what it was given and how it ended
    tokenFile,      \* the token file: None, or the JSON object it holds
    saved,          \* the four fields as they were when the file was written
    granted,        \* the token data of the last exchange or refresh that
                    \* succeeded (None before the first)
    restored,       \* the access token read by the last load_tokens that
                    \* succeeded, None once an exchange or refresh succeeds
    served,         \* requests that callback servers have handled
    unserved,       \* requests that arrived while no server was waiting
    \* ---- the sleep tables and SleepSync.sync_sleep_date ------------------
    slSessions,     \* sleep_sessions: log_id -> row
    slMinutes,      \* sleep_minutes: <<log_id, minute_time>> -> sleep_stage
    slLast,         \* what the last call did, session by session
    slCalls,        \* number of calls made so far (capped by MaxSleepCalls)
    \* ---- one list of minute entries inserted on its own ------------------
    mxEntries,      \* the levels.data list given to _insert_sleep_minutes
    mxDone          \* whether it has been inserted

hrVars    == <<hrDaily, hrIntraday, hrLast, hrCalls, hrFirst>>
monthVars == <<pc, year, month, dates, idx, total_daily, total_intraday,
               days_processed, attempted, deviations, failed, runDaily,
               runIntraday>>
rsVars    == <<rsReq, rsFirst>>
scVars    == <<scSession, scScore>>
tokenVars == <<access_token, refresh_token, token_type, expires_in>>
fileVars  == <<tokenFile, saved>>
authVars  == <<tokenVars, authPc, posts, authOps, authLast, fileVars, granted,
               restored, served, unserved>>
sleepVars == <<slSessions, slMinutes, slLast, slCalls>>
mxVars    == <<mxEntries, mxDone>>
vars      == <<hrVars, monthVars, rsVars, scVars, authVars, sleepVars, mxVars>>

-----------------------------------------------------------------------------
(* Bounds of the model *)

MaxYear == 2024
MaxTime == 2         \* minutes of the day that occur in intraday datasets
MaxRate == 2         \* distinct heart-rate / summary values
MaxIntraday == 2     \* longest intraday dataset
MaxCalls == 2        \* calls of sync_heart_rate_date in one exploration
MaxDay == 2          \* dates that single-date syncs are run for
MaxDeviations == 1   \* dates of a month run whose sync is not the nominal one
MaxAsleep == 900     \* largest minutesAsleep scored
EffMargin == 7       \* how far efficiency goes below 0 and above 100
MaxAwake == 3        \* awakeCount goes up to 4 * MaxAwake
MaxRestless == 2     \* restlessCount goes up to 3 * MaxRestless
MaxFall == 2         \* minutesToFallAsleep goes up to 13 * MaxFall
MaxOps == 4          \* operations of FitbitAuth in one exploration
MaxLate == 1         \* requests that arrive after a callback server returned
MaxSessions == 2     \* longest session list of a sleep payload
MaxSleepCalls == 2   \* calls of sync_sleep_date in one exploration
MaxHalfMinutes == 6  \* longest interval of levels.data, in half minutes

None == <<>>
Some(v) == <<v>>
IsNone(o) == o = <<>>

Max(a, b) == IF a >= b THEN a ELSE b
Min(a, b) == IF a <= b THEN a ELSE b

-----------------------------------------------------------------------------
(* datetime arithmetic used by generate_date_range *)

IsLeap(y) == (y % 4 = 0) /\ ((y % 100 # 0) \/ (y % 400 = 0))

DaysInMonth(y, m) ==
    IF m = 2 THEN (IF IsLeap(y) THEN 29 ELSE 28)
    ELSE IF m \in {4, 6, 9, 11} THEN 30 ELSE 31

\* datetime - timedelta(days=1)
MinusOneDay(dt) ==
    IF dt[3] > 1 THEN <<dt[1], dt[2], dt[3] - 1>>
    ELSE IF dt[2] > 1 THEN <<dt[1], dt[2] - 1, DaysInMonth(dt[1], dt[2] - 1)>>
    ELSE <<dt[1] - 1, 12, 31>>

\* datetime + timedelta(days=1)
PlusOneDay(dt) ==
    IF dt[3] < DaysInMonth(dt[1], dt[2]) THEN <<dt[1], dt[2], dt[3] + 1>>
    ELSE IF dt[2] < 12 THEN <<dt[1], dt[2] + 1, 1>>
    ELSE <<dt[1] + 1, 1, 1>>

\* datetime <= datetime
DateLeq(a, b) ==
    \/ a[1] < b[1]
    \/ a[1] = b[1] /\ a[2] < b[2]
    \/ a[1] = b[1] /\ a[2] = b[2] /\ a[3] <= b[3]

\* end_date of generate_date_range
EndDate(y, m) ==
    IF m = 12 THEN MinusOneDay(<<y + 1, 1, 1>>)
    ELSE MinusOneDay(<<y, m + 1, 1>>)

\* the while loop of generate_date_range: the dates yielded from current_date on
RECURSIVE DateLoop(_, _)
DateLoop(current_date, end_date) ==
    IF DateLeq(current_date, end_date)
    THEN <<current_date>> \o DateLoop(PlusOneDay(current_date), end_date)
    ELSE <<>>

generate_date_range(y, m) == DateLoop(<<y, m, 1>>, EndDate(y, m))

-----------------------------------------------------------------------------
(* SleepSync._calculate_sleep_score                                        *)
(*                                                                         *)
(* The code computes in binary floating point.  With integer inputs the    *)
(* duration score is a whole number of thirds, so ten times the weighted   *)
(* sum, 3 * duration_score + 4 * quality_score + 3 * restoration_score, is *)
(* an integer: the operators below carry the duration score in thirds and  *)
(* the sum in tenths.  round() of an exact tie goes to the even neighbour, *)
(* but the products by 0.30 and 0.40 are inexact, so a sum that is half-   *)
(* way in exact arithmetic lands on either neighbour: tie says on which.   *)

\* a duration score whose band is open at both ends: 7 and 9 hours exactly
\* are penalised as the hours next to them
DurationThirdsOpenBand(minutes_asleep) ==
    IF 420 < minutes_asleep /\ minutes_asleep < 540 THEN 300
    ELSE IF minutes_asleep <= 420
    THEN Max(0, 300 - (421 - minutes_asleep))
    ELSE Max(0, 300 - (minutes_asleep - 539))

\* lines 166-175, times three
DurationThirds(minutes_asleep) ==
    IF 420 <= minutes_asleep /\ minutes_asleep <= 540 THEN 300
    ELSE IF minutes_asleep < 420
    THEN Max(0, 300 - (420 - minutes_asleep))
    ELSE Max(0, 300 - (minutes_asleep - 540))

\* line 178: efficiency or 0
QualityScore(efficiency) == IF IsNone(efficiency) THEN 0 ELSE efficiency[1]

\* a restoration score without its floor at 0
RestorationScoreNoFloor(awake_count, restless_count, minutes_to_fall_asleep) ==
    LET interruption_penalty == Min(50, (awake_count * 5) + (restless_count * 2))
    IN  100 - interruption_penalty - (minutes_to_fall_asleep * 2)

\* lines 181-182
RestorationScore(awake_count, restless_count, minutes_to_fall_asleep) ==
    LET interruption_penalty == Min(50, (awake_count * 5) + (restless_count * 2))
    IN  Max(0, 100 - interruption_penalty - (minutes_to_fall_asleep * 2))

\* line 185, times ten
SleepScoreTenths(session) ==
    DurationThirds(session.minutesAsleep)
    + 4 * QualityScore(session.efficiency)
    + 3 * RestorationScore(session.awakeCount, session.restlessCount,
                           session.minutesToFallAsleep)

\* line 187: int(round(sleep_score))
RoundTenths(tenths, tie) ==
    IF tenths % 10 < 5 THEN tenths \div 10
    ELSE IF tenths % 10 > 5 THEN (tenths \div 10) + 1
    ELSE IF tie = "up" THEN (tenths \div 10) + 1 ELSE tenths \div 10

calculate_sleep_score(session, tie) == RoundTenths(SleepScoreTenths(session), tie)

Ties == {"down", "up"}

\* the fields of a session that the score reads
ScoreFields(minutesAsleep, efficiency, awakeCount, restlessCount, minutesToFallAsleep) ==
    [minutesAsleep |-> minutesAsleep, efficiency |-> efficiency,
     awakeCount |-> awakeCount, restlessCount |-> restlessCount,
     minutesToFallAsleep |-> minutesToFallAsleep]

NoSession == ScoreFields(0, None, 0, 0, 0)

\* the sessions scored: durations every half hour and around the ends of
\* the bands, efficiencies inside and outside 0..100, counts and minutes to
\* fall asleep from below zero to beyond the caps
AsleepValues ==
    {m \in 0..MaxAsleep : m % 30 = 0}
    \cup {119, 120, 121, 419, 420, 421, 480, 539, 540, 541, 839, 840, 841}
EfficiencyValues ==
    {None} \cup {Some(e) : e \in {x \in (0 - EffMargin)..(100 + EffMargin) :
                                     x % 7 = 0 \/ x \in {95, 100}}}
AwakeValues == {0 - 1} \cup {4 * k : k \in 0..MaxAwake}
RestlessValues == {3 * k : k \in 0..MaxRestless}
FallValues == {0 - 60} \cup {13 * k : k \in 0..MaxFall}

-----------------------------------------------------------------------------
(* The storage boundary: a statement either executes, or is rejected with  *)
(* mysql.connector.IntegrityError, or fails with another database error.   *)
(* db = [at |-> n, kind |-> k]: the n-th statement the call executes has   *)
(* outcome k, every other statement executes (at = 0: all execute).        *)

Outcome(db, n) == IF db.at = n THEN db.kind ELSE "ok"

\* INSERT ... ON DUPLICATE KEY UPDATE col = VALUES(col): the row under key
\* becomes row, whether or not the key was present
Upsert(table, key, row) ==
    [k \in (DOMAIN table) \cup {key} |-> IF k = key THEN row ELSE table[k]]

-----------------------------------------------------------------------------
(* HeartRateSync._insert_daily_heart_rate *)

\* next((z for z in zones if z['name'] == name), {}): the generator stops at
\* the first match; a zone without 'name' met before it raises KeyError
RECURSIVE FirstZone(_, _)
FirstZone(zones, name) ==
    IF zones = <<>> THEN [exc |-> "none", minutes |-> None, caloriesOut |-> None]
    ELSE IF IsNone(Head(zones).name)
    THEN [exc |-> "KeyError", minutes |-> None, caloriesOut |-> None]
    ELSE IF Head(zones).name = Some(name)
    THEN [exc |-> "none", minutes |-> Head(zones).minutes,
          caloriesOut |-> Head(zones).caloriesOut]
    ELSE FirstZone(Tail(zones), name)

\* params of the INSERT, without the key column
DailyParams(value, fat_burn, cardio, peak) ==
    [resting_heart_rate |-> value.restingHeartRate,
     calories_out       |-> value.caloriesOut,
     fat_burn_minutes   |-> fat_burn.minutes,
     fat_burn_calories  |-> fat_burn.caloriesOut,
     cardio_minutes     |-> cardio.minutes,
     cardio_calories    |-> cardio.caloriesOut,
     peak_minutes       |-> peak.minutes,
     peak_calories      |-> peak.caloriesOut]

\* the statement of _insert_daily_heart_rate: INSERT ... ON DUPLICATE KEY
\* UPDATE of every column
InsertDailyUpsert(table, date, row) == Upsert(table, date, row)

\* tx is the open transaction, tx.n the number of statements it has executed
insert_daily_heart_rate(tx, date, daily_data, db) ==
    LET value    == daily_data.value
        fat_burn == FirstZone(value.heartRateZones, "Fat Burn")
        cardio   == FirstZone(value.heartRateZones, "Cardio")
        peak     == FirstZone(value.heartRateZones, "Peak")
    IN  IF fat_burn.exc # "none" \/ cardio.exc # "none" \/ peak.exc # "none"
        THEN [tx EXCEPT !.exc = "KeyError"]
        ELSE IF Outcome(db, tx.n + 1) = "integrity"
        THEN [tx EXCEPT !.exc = "IntegrityError", !.n = tx.n + 1]
        ELSE IF Outcome(db, tx.n + 1) = "error"
        THEN [tx EXCEPT !.exc = "DatabaseError", !.n = tx.n + 1]
        ELSE [tx EXCEPT !.daily = InsertDailyUpsert(tx.daily, date,
                                      DailyParams(value, fat_burn, cardio, peak)),
                        !.n = tx.n + 1,
                        !.dailyKeys = tx.dailyKeys \cup {date},
                        !.daily_synced = 1]

-----------------------------------------------------------------------------
(* HeartRateSync._insert_intraday_heart_rate *)

\* a statement that adds to the stored value on a duplicate key:
\* ON DUPLICATE KEY UPDATE heart_rate = heart_rate + VALUES(heart_rate)
InsertIntradayAccumulate(table, key, heart_rate) ==
    Upsert(table, key,
           IF key \in DOMAIN table THEN table[key] + heart_rate ELSE heart_rate)

\* the statement of the loop: INSERT ... ON DUPLICATE KEY UPDATE heart_rate
InsertIntradayUpsert(table, key, heart_rate) == Upsert(table, key, heart_rate)

\* the for loop over intraday_data, from its i-th record on
RECURSIVE IntradayLoop(_, _, _, _, _)
IntradayLoop(tx, date, intraday_data, i, db) ==
    IF i > Len(intraday_data) THEN tx
    ELSE LET record == intraday_data[i] IN
         IF IsNone(record.time) \/ IsNone(record.value)
         THEN [tx EXCEPT !.exc = "KeyError"]
         ELSE LET key == <<date, record.time[1]>>
                  out == Outcome(db, tx.n + 1)
              IN  IF out = "error"
                  THEN [tx EXCEPT !.exc = "DatabaseError", !.n = tx.n + 1]
                  ELSE IF out = "integrity"
                  THEN \* except mysql.connector.IntegrityError: pass
                       IntradayLoop([tx EXCEPT !.n = tx.n + 1],
                                    date, intraday_data, i + 1, db)
                  ELSE IntradayLoop(
                         [tx EXCEPT !.intraday = InsertIntradayUpsert(
                                        tx.intraday, key, record.value[1]),
                                    !.n = tx.n + 1,
                                    !.log = Append(tx.log, <<key, record.value[1]>>),
                                    !.intraday_synced = tx.intraday_synced + 1],
                         date, intraday_data, i + 1, db)

\* 'if not intraday_data: return 0' needs no case of its own: the loop over
\* an empty list executes nothing and returns inserted = 0
insert_intraday_heart_rate(tx, date, intraday_data, db) ==
    IntradayLoop(tx, date, intraday_data, 1, db)

-----------------------------------------------------------------------------
(* HeartRateSync.sync_heart_rate_date *)

\* the cursor on a fresh transaction over the committed store
BeginTx(daily, intraday) ==
    [daily |-> daily, intraday |-> intraday, exc |-> "none", n |-> 0,
     daily_synced |-> 0, intraday_synced |-> 0, dailyKeys |-> {}, log |-> <<>>]

\* lines 66-71: the daily summary
SyncDailyPart(tx, date, hr_data, db) ==
    IF hr_data.hasHeart /\ hr_data.heart # <<>>
    THEN LET daily_data  == hr_data.heart[1]
             actual_date == IF IsNone(daily_data.dateTime) THEN date
                            ELSE daily_data.dateTime[1]
         IN  insert_daily_heart_rate(tx, actual_date, daily_data, db)
    ELSE tx

\* lines 74-79: the intraday dataset
SyncIntradayPart(tx, date, hr_data, db) ==
    IF tx.exc # "none" THEN tx
    ELSE IF ~hr_data.hasIntraday THEN tx
    ELSE IF hr_data.hasHeart /\ hr_data.heart = <<>>
    THEN \* hr_data['activities-heart'][0] on an empty list
         [tx EXCEPT !.exc = "IndexError"]
    ELSE LET actual_date ==
                 IF hr_data.hasHeart
                 THEN (IF IsNone(hr_data.heart[1].dateTime) THEN date
                       ELSE hr_data.heart[1].dateTime[1])
                 ELSE date
         IN  insert_intraday_heart_rate(tx, actual_date, hr_data.dataset, db)

\* a sync that re-raises without rolling back: what the failed transaction
\* wrote reaches the store with the next commit on the connection
EndTxNoRollback(daily, intraday, tx) ==
    [daily |-> tx.daily, intraday |-> tx.intraday,
     raised |-> tx.exc # "none", exc |-> tx.exc,
     stage |-> IF tx.exc = "none" THEN "done" ELSE "write",
     commits |-> IF tx.exc = "none" THEN 1 ELSE 0, rollbacks |-> 0,
     daily_synced |-> IF tx.exc = "none" THEN tx.daily_synced ELSE 0,
     intraday_synced |-> IF tx.exc = "none" THEN tx.intraday_synced ELSE 0,
     dailyKeys |-> IF tx.exc = "none" THEN tx.dailyKeys ELSE {},
     log |-> IF tx.exc = "none" THEN tx.log ELSE <<>>,
     txDailyKeys |-> tx.dailyKeys, txWrites |-> Len(tx.log)]

\* lines 81-85: commit, or rollback and re-raise.  The result names the
\* committed store after the call and what the caller sees; dailyKeys and
\* log are the writes that were committed, txDailyKeys and txWrites the
\* writes the transaction had made when it ended.
EndTx(daily, intraday, tx) ==
    IF tx.exc = "none"
    THEN [daily |-> tx.daily, intraday |-> tx.intraday,
          raised |-> FALSE, exc |-> "none", stage |-> "done",
          commits |-> 1, rollbacks |-> 0,
          daily_synced |-> tx.daily_synced, intraday_synced |-> tx.intraday_synced,
          dailyKeys |-> tx.dailyKeys, log |-> tx.log,
          txDailyKeys |-> tx.dailyKeys, txWrites |-> Len(tx.log)]
    ELSE [daily |-> daily, intraday |-> intraday,
          raised |-> TRUE, exc |-> tx.exc, stage |-> "write",
          commits |-> 0, rollbacks |-> 1,
          daily_synced |-> 0, intraday_synced |-> 0,
          dailyKeys |-> {}, log |-> <<>>,
          txDailyKeys |-> tx.dailyKeys, txWrites |-> Len(tx.log)]

\* fetch = [ok |-> BOOLEAN, data |-> hr_data]: what get_heart_rate_intraday
\* did (it raises when ok is FALSE, before any cursor is opened)
sync_heart_rate_date(daily, intraday, date, fetch, db) ==
    IF ~fetch.ok
    THEN [daily |-> daily, intraday |-> intraday,
          raised |-> TRUE, exc |-> "FetchError", stage |-> "fetch",
          commits |-> 0, rollbacks |-> 0,
          daily_synced |-> 0, intraday_synced |-> 0,
          dailyKeys |-> {}, log |-> <<>>,
          txDailyKeys |-> {}, txWrites |-> 0]
    ELSE EndTx(daily, intraday,
               SyncIntradayPart(
                   SyncDailyPart(BeginTx(daily, intraday), date, fetch.data, db),
                   date, fetch.data, db))

-----------------------------------------------------------------------------
(* What the Fitbit API and the database may answer *)

Times == 1..MaxTime
Rates == 1..MaxRate

Zone(name, v) == [name |-> Some(name), minutes |-> Some(v), caloriesOut |-> Some(v)]
GoodZones(v) == <<Zone("Out of Range", v), Zone("Fat Burn", v),
                  Zone("Cardio", v), Zone("Peak", v)>>
\* a zone object without 'name' after the Fat Burn zone
BadZones == <<Zone("Fat Burn", 1),
              [name |-> None, minutes |-> Some(1), caloriesOut |-> Some(1)]>>

DailyData(dateTime, v, zones) ==
    [dateTime |-> dateTime,
     value |-> [restingHeartRate |-> Some(v), caloriesOut |-> Some(v),
                heartRateZones |-> zones]]

\* a summary without 'value': daily_data.get('value', {}) is empty
DailyDataNoValue(dateTime) ==
    [dateTime |-> dateTime,
     value |-> [restingHeartRate |-> None, caloriesOut |-> None,
                heartRateZones |-> <<>>]]

Record(t, v) == [time |-> Some(t), value |-> Some(v)]
RecordNoTime == [time |-> None, value |-> Some(1)]

IntradayRecords == {Record(t, v) : t \in Times, v \in Rates} \cup {RecordNoTime}

\* the datasets explored: at most MaxIntraday records, in ascending order of
\* time as the API sends them, of which only the last may lack its 'time'
Datasets ==
    {ds \in UNION {[1..n -> IntradayRecords] : n \in 0..MaxIntraday} :
        \A i \in 1..(Len(ds) - 1) :
            /\ ds[i] # RecordNoTime
            /\ ds[i + 1] # RecordNoTime => ds[i].time[1] < ds[i + 1].time[1]}

HrData(hasHeart, heart, hasIntraday, dataset) ==
    [hasHeart |-> hasHeart, heart |-> heart,
     hasIntraday |-> hasIntraday, dataset |-> dataset]

\* the daily summaries the API may send when the 'dateTime' it reports is
\* one of dateTimes
DailyDatas(dateTimes) ==
    {DailyData(dt, v, GoodZones(v)) :
         dt \in {None} \cup {Some(d) : d \in dateTimes}, v \in Rates}
    \cup {DailyDataNoValue(None), DailyData(None, 1, BadZones)}

HeartLists(dateTimes) == {<<>>} \cup {<<dd>> : dd \in DailyDatas(dateTimes)}

HeartPayloads(dateTimes) ==
    {HrData(TRUE, h, TRUE, ds) : h \in HeartLists(dateTimes), ds \in Datasets}
    \cup {HrData(TRUE, h, FALSE, <<>>) : h \in HeartLists(dateTimes)}
    \cup {HrData(FALSE, <<>>, TRUE, ds) : ds \in Datasets}
    \cup {HrData(FALSE, <<>>, FALSE, <<>>)}

NoFault == [at |-> 0, kind |-> "ok"]
DbFaults == {NoFault} \cup
            [at : 1..(MaxIntraday + 1), kind : {"integrity", "error"}]

FetchFailed == [ok |-> FALSE, data |-> HrData(FALSE, <<>>, FALSE, <<>>)]
Fetched(hr_data) == [ok |-> TRUE, data |-> hr_data]

-----------------------------------------------------------------------------
(* Recording a call of sync_heart_rate_date in the state *)

NoCall == [date |-> <<>>, raised |-> FALSE, exc |-> "none", stage |-> "none",
           commits |-> 0, rollbacks |-> 0,
           daily_synced |-> 0, intraday_synced |-> 0, written |-> 0,
           txDaily |-> FALSE, txWrites |-> 0]

Summary(date, r) ==
    [date |-> date, raised |-> r.raised, exc |-> r.exc, stage |-> r.stage,
     commits |-> r.commits, rollbacks |-> r.rollbacks,
     daily_synced |-> r.daily_synced, intraday_synced |-> r.intraday_synced,
     written |-> Len(r.log),
     txDaily |-> r.txDailyKeys # {}, txWrites |-> r.txWrites]

\* ghost: the value of the first committed write of every timestamp
RECURSIVE FirstWrites(_, _)
FirstWrites(first, log) ==
    IF log = <<>> THEN first
    ELSE FirstWrites(
             IF Head(log)[1] \in DOMAIN first THEN first
             ELSE Upsert(first, Head(log)[1], Head(log)[2]),
             Tail(log))

\* the call's effect on the store and on the record of the last call
ApplySync(date, r) ==
    /\ hrDaily' = r.daily
    /\ hrIntraday' = r.intraday
    /\ hrLast' = Summary(date, r)
    /\ hrCalls' = hrCalls + 1
    /\ hrFirst' = FirstWrites(hrFirst, r.log)

EmptyTable == [k \in {} |-> 0]

-----------------------------------------------------------------------------
(* sync_heart_rate_month.main *)

\* a leap year and a year that is not
Years == (MaxYear - 1)..MaxYear
\* the months synced: February, a 30-day month and December
MonthArgs == {2, 11, 12}
\* sys.argv[2] may also be out of range
BadMonthArgs == {0, 13}

\* the nominal answer for a date: a summary dated that day, one intraday
\* record on odd days and two on even days, every statement executes
NominalResponse(date) ==
    [fetch |-> Fetched(HrData(TRUE, <<DailyData(Some(date), 1, GoodZones(1))>>,
                              TRUE,
                              IF date[3] % 2 = 1 THEN <<Record(1, 1)>>
                              ELSE <<Record(1, 1), Record(2, 2)>>)),
     db |-> NoFault]

\* the other answers explored in a month run
DeviatingResponses(date) ==
    {[fetch |-> FetchFailed, db |-> NoFault],
     \* no summary, two intraday records keyed by the requested date
     [fetch |-> Fetched(HrData(FALSE, <<>>, TRUE, <<Record(1, 2), Record(2, 1)>>)),
      db |-> NoFault],
     \* the database fails on the last statement, after two writes
     [fetch |-> Fetched(HrData(TRUE, <<DailyData(None, 2, GoodZones(2))>>,
                               TRUE, <<Record(1, 1), Record(2, 2)>>)),
      db |-> [at |-> 3, kind |-> "error"]],
     \* one intraday statement is rejected and skipped
     [fetch |-> Fetched(HrData(TRUE, <<DailyData(Some(date), 2, GoodZones(2))>>,
                               TRUE, <<Record(1, 1), Record(2, 2)>>)),
      db |-> [at |-> 2, kind |-> "integrity"]],
     \* an intraday record without 'time' after a good one
     [fetch |-> Fetched(HrData(TRUE, <<DailyData(Some(date), 1, GoodZones(1))>>,
                               TRUE, <<Record(1, 1), RecordNoTime>>)),
      db |-> NoFault]}

MonthIdle ==
    /\ pc = "start" /\ dates = <<>> /\ idx = 0
    /\ total_daily = 0 /\ total_intraday = 0 /\ days_processed = 0
    /\ attempted = <<>> /\ deviations = {} /\ failed = {} /\ runDaily = {} /\ runIntraday = 0

HrIdle ==
    /\ hrDaily = EmptyTable /\ hrIntraday = EmptyTable
    /\ hrLast = NoCall /\ hrCalls = 0 /\ hrFirst = EmptyTable

NoRequest == [runs |-> 0, date |-> <<>>, data |-> HrData(FALSE, <<>>, FALSE, <<>>),
              db |-> NoFault]
NoStore == [daily |-> EmptyTable, intraday |-> EmptyTable, committed |-> FALSE]

RsIdle ==
    /\ rsReq = NoRequest /\ rsFirst = NoStore

ScIdle ==
    /\ scSession = NoSession /\ scScore = None

NoResponse == [status |-> 0, access_token |-> None, refresh_token |-> None,
               token_type |-> None, expires_in |-> None]

NoOperation == [op |-> "none", exc |-> "none", posted |-> FALSE,
                request |-> [method |-> "GET", code |-> None],
                response |-> NoResponse]

NoSleepCall == [raised |-> FALSE, exc |-> "none", commits |-> 0, rollbacks |-> 0,
                txOpen |-> FALSE, sessions_synced |-> 0, nsessions |-> 0,
                trace |-> <<>>, faulted |-> FALSE,
                client |-> [kind |-> "none", has_token |-> FALSE, status |-> 0],
                fetched |-> FALSE]

SleepIdle ==
    /\ slSessions = EmptyTable /\ slMinutes = EmptyTable
    /\ slLast = NoSleepCall /\ slCalls = 0

MxIdle ==
    /\ mxEntries = <<>> /\ mxDone = FALSE

\* FitbitAuth.__init__: no tokens
AuthIdle ==
    /\ access_token = None /\ refresh_token = None
    /\ token_type = None /\ expires_in = None
    /\ authPc = "idle" /\ posts = 0 /\ authOps = 0 /\ authLast = NoOperation
    /\ tokenFile = None /\ saved = None /\ granted = None /\ restored = None
    /\ served = 0 /\ unserved = 0

MonthInit ==
    /\ year \in Years
    /\ month \in MonthArgs \cup BadMonthArgs
    /\ MonthIdle /\ HrIdle /\ RsIdle /\ ScIdle /\ AuthIdle /\ SleepIdle /\ MxIdle

\* lines 61-68: the month is validated, or the process exits
MainBadArgs ==
    /\ pc = "start"
    /\ month < 1 \/ month > 12
    /\ pc' = "exit"
    /\ UNCHANGED <<year, month, dates, idx, total_daily, total_intraday,
                   days_processed, attempted, deviations, failed, runDaily,
                   runIntraday>>
    /\ UNCHANGED <<hrVars, rsVars, scVars, authVars, sleepVars, mxVars>>

\* lines 98-104: connect, zero the totals, list the dates
MainStart ==
    /\ pc = "start"
    /\ ~(month < 1 \/ month > 12)
    /\ pc' = "loop"
    /\ total_daily' = 0
    /\ total_intraday' = 0
    /\ dates' = generate_date_range(year, month)
    /\ UNCHANGED <<year, month, idx, days_processed, attempted, deviations,
                   failed, runDaily, runIntraday>>
    /\ UNCHANGED <<hrVars, rsVars, scVars, authVars, sleepVars, mxVars>>

\* a loop that leaves at the first failure instead of continuing
LoopBodyBreak(date, r) ==
    /\ IF r.raised
       THEN /\ UNCHANGED <<total_daily, total_intraday>>
            /\ idx' = Len(dates)
       ELSE /\ total_daily' = total_daily + r.daily_synced
            /\ total_intraday' = total_intraday + r.intraday_synced
            /\ idx' = idx + 1
    /\ pc' = "loop"

\* what the loop does with the result r of the call for one date
\* (lines 108-114)
LoopBody(date, r) ==
    /\ IF r.raised
       THEN \* except Exception: print a warning; continue
            UNCHANGED <<total_daily, total_intraday>>
       ELSE /\ total_daily' = total_daily + r.daily_synced
            /\ total_intraday' = total_intraday + r.intraday_synced
    /\ idx' = idx + 1
    /\ pc' = "loop"

\* lines 106-114: one iteration of the for loop
MainLoop ==
    /\ pc = "loop"
    /\ idx < Len(dates)
    /\ LET date == dates[idx + 1] IN
       \E resp \in {NominalResponse(date)} \cup DeviatingResponses(date) :
          /\ resp # NominalResponse(date) => Cardinality(deviations) < MaxDeviations
          /\ LET r == sync_heart_rate_date(hrDaily, hrIntraday, date,
                                           resp.fetch, resp.db)
             IN  /\ ApplySync(date, r)
                 /\ LoopBody(date, r)
                 /\ attempted' = Append(attempted, date)
                 /\ deviations' = IF resp = NominalResponse(date) THEN deviations
                                  ELSE deviations \cup {date}
                 /\ failed' = IF r.raised THEN failed \cup {date} ELSE failed
                 /\ runDaily' = runDaily \cup r.dailyKeys
                 /\ runIntraday' = runIntraday + Len(r.log)
    /\ UNCHANGED <<year, month, dates, days_processed>>
    /\ UNCHANGED <<rsVars, scVars, authVars, sleepVars, mxVars>>

\* lines 116-119: the loop is over, the totals are printed
MainFinish ==
    /\ pc = "loop"
    /\ idx >= Len(dates)
    /\ pc' = "done"
    /\ days_processed' = Len(dates)
    /\ UNCHANGED <<year, month, dates, idx, total_daily, total_intraday,
                   attempted, deviations, failed, runDaily, runIntraday>>
    /\ UNCHANGED <<hrVars, rsVars, scVars, authVars, sleepVars, mxVars>>

MonthNext == MainBadArgs \/ MainStart \/ MainLoop \/ MainFinish

SpecMonth == MonthInit /\ [][MonthNext]_vars

-----------------------------------------------------------------------------
(* Claims about the month run *)

\* the calendar dates of a month, first to last, ascending
CalendarDates(y, m) == [d \in 1..DaysInMonth(y, m) |-> <<y, m, d>>]

\* C1: the loop of main calls sync_heart_rate_date exactly once for each
\* calendar date of the month, first to last in ascending order, whether or
\* not an earlier date's sync raised, and the number of days it reports is
\* the number of dates of the month.
C1_EveryDateOnce ==
    /\ pc \in {"loop", "done"} =>
          /\ idx <= Len(CalendarDates(year, month))
          /\ attempted = SubSeq(CalendarDates(year, month), 1, idx)
    /\ pc = "done" =>
          /\ attempted = CalendarDates(year, month)
          /\ days_processed = Len(CalendarDates(year, month))

\* a December run that has finished although the sync of a date before the
\* last one raised
C1_Witness ==
    /\ pc = "done" /\ month = 12
    /\ \E d \in failed : d[3] < Len(attempted)

\* the row and the intraday entry the nominal answer for a date writes
NominalRow == DailyParams(DailyData(None, 1, GoodZones(1)).value,
                          FirstZone(GoodZones(1), "Fat Burn"),
                          FirstZone(GoodZones(1), "Cardio"),
                          FirstZone(GoodZones(1), "Peak"))

Range(seq) == {seq[i] : i \in DOMAIN seq}

\* C4: throughout and after the month run the totals agree with the
\* committed writes: total_daily is the number of daily rows committed by
\* this run, total_intraday the number of intraday entries written by the
\* committed syncs; a date whose sync failed has no row in the store, and
\* the rows committed for the other dates stay as they were written.
C4_TotalsMatchCommits ==
    pc \in {"loop", "done"} =>
       /\ total_daily = Cardinality(runDaily)
       /\ total_intraday = runIntraday
       /\ DOMAIN hrDaily = runDaily
       /\ Cardinality(DOMAIN hrIntraday) = total_intraday
       /\ pc = "done" /\ deviations = {} =>
             total_intraday = total_daily + (total_daily \div 2)
       /\ \A d \in failed :
             /\ d \notin DOMAIN hrDaily
             /\ \A k \in DOMAIN hrIntraday : k[1] # d
       /\ \A d \in Range(attempted) \ deviations :
             /\ d \in DOMAIN hrDaily /\ hrDaily[d] = NominalRow
             /\ <<d, 1>> \in DOMAIN hrIntraday /\ hrIntraday[<<d, 1>>] = 1

\* a finished run in which a date before the last one failed
\* and the other dates committed more intraday entries than daily rows
C4_Witness ==
    /\ pc = "done"
    /\ \E d \in failed : d[3] < Len(attempted) /\ d[3] > 1
    /\ total_intraday > total_daily
    /\ total_daily = Len(attempted) - 1

-----------------------------------------------------------------------------
(* sync_heart_rate.main, run again and again against the same database *)

HRDates == {<<MaxYear, 1, d>> : d \in 1..MaxDay}

HRInit ==
    /\ year = MaxYear /\ month = 1
    /\ MonthIdle /\ HrIdle /\ RsIdle /\ ScIdle /\ AuthIdle /\ SleepIdle /\ MxIdle

\* lines 241-246: connect, sync the date given on the command line, close
SyncDate ==
    /\ hrCalls < MaxCalls
    /\ \E date \in HRDates, db \in DbFaults :
       \E fetch \in {FetchFailed} \cup {Fetched(p) : p \in HeartPayloads({date})} :
          ApplySync(date, sync_heart_rate_date(hrDaily, hrIntraday, date, fetch, db))
    /\ UNCHANGED <<monthVars, rsVars, scVars, authVars, sleepVars, mxVars>>

HRNext == SyncDate

SpecHR == HRInit /\ [][HRNext]_vars

-----------------------------------------------------------------------------
(* Claims about single-date syncs *)

C7_FirstWriteWins ==
    \A k \in DOMAIN hrIntraday : hrIntraday[k] = hrFirst[k]

-----------------------------------------------------------------------------
(* The same date synced twice with the same fetched payload *)

\* an earlier sync that left rows in the store
SeedPayloads(date) ==
    {HrData(TRUE, <<DailyData(None, MaxRate, GoodZones(MaxRate))>>,
            TRUE, <<Record(1, MaxRate)>>),
     HrData(FALSE, <<>>, TRUE, <<Record(MaxTime, 1)>>)}

RsSeed ==
    /\ rsReq.runs = 0 /\ hrCalls = 0
    /\ \E date \in HRDates :
       \E p \in SeedPayloads(date) :
          ApplySync(date, sync_heart_rate_date(hrDaily, hrIntraday, date,
                                               Fetched(p), NoFault))
    /\ UNCHANGED <<monthVars, rsVars, scVars, authVars, sleepVars, mxVars>>

RsFirstRun ==
    /\ rsReq.runs = 0
    /\ \E date \in HRDates, db \in DbFaults :
       \E p \in HeartPayloads({date}) :
          LET r == sync_heart_rate_date(hrDaily, hrIntraday, date, Fetched(p), db)
          IN  /\ ApplySync(date, r)
              /\ rsReq' = [runs |-> 1, date |-> date, data |-> p, db |-> db]
              /\ rsFirst' = [daily |-> r.daily, intraday |-> r.intraday,
                             committed |-> r.commits = 1]
    /\ UNCHANGED <<monthVars, scVars, authVars, sleepVars, mxVars>>

\* the second run: the same date and payload; the database answers every
\* statement as it did in the first run, until it fails if it does
RsSecondRun ==
    /\ rsReq.runs = 1
    /\ \E db \in {rsReq.db} \cup
                 {f \in DbFaults : /\ f.kind = "error"
                                   /\ rsReq.db.at = 0 \/ f.at <= rsReq.db.at} :
          ApplySync(rsReq.date,
                    sync_heart_rate_date(hrDaily, hrIntraday, rsReq.date,
                                         Fetched(rsReq.data), db))
    /\ rsReq' = [rsReq EXCEPT !.runs = 2]
    /\ UNCHANGED <<monthVars, rsFirst, scVars, authVars, sleepVars, mxVars>>

RsNext == RsSeed \/ RsFirstRun \/ RsSecondRun

SpecResync == HRInit /\ [][RsNext]_vars

\* C2: when sync_heart_rate_date has committed a payload for a date, a
\* second run for the same date with the same payload (the database
\* answering each statement as before until it fails) leaves the store equal
\* to the store after the first run: the daily rows are the same rows and
\* the intraday table has no more rows than after the first run.
C2_ResyncIdempotent ==
    (rsReq.runs = 2 /\ rsFirst.committed) =>
        /\ hrDaily = rsFirst.daily
        /\ hrIntraday = rsFirst.intraday
        /\ Cardinality(DOMAIN hrIntraday) <= Cardinality(DOMAIN rsFirst.intraday)

\* both runs committed a summary and a full dataset, over rows that an
\* earlier sync had stored with other values
C2_Witness ==
    /\ rsReq.runs = 2 /\ rsFirst.committed
    /\ hrCalls = 3
    /\ hrLast.commits = 1
    /\ hrLast.daily_synced = 1 /\ hrLast.intraday_synced = MaxIntraday
    /\ hrDaily[rsReq.date].resting_heart_rate = Some(1)
    /\ hrIntraday[<<rsReq.date, 1>>] = 1
    /\ hrFirst[<<rsReq.date, 1>>] = MaxRate

\* a payload none of whose present parts lacks a field that the mapping
\* subscripts: every zone has its 'name', every record its 'time' and 'value'
PartsWellFormed(hr_data) ==
    /\ \A i \in DOMAIN hr_data.heart :
          \A z \in DOMAIN hr_data.heart[i].value.heartRateZones :
             ~IsNone(hr_data.heart[i].value.heartRateZones[z].name)
    /\ \A i \in DOMAIN hr_data.dataset :
          ~IsNone(hr_data.dataset[i].time) /\ ~IsNone(hr_data.dataset[i].value)

\* a daily summary object is present
HasSummary(hr_data) == hr_data.hasHeart /\ hr_data.heart # <<>>

\* the date the rows of the call are keyed by: the summary's 'dateTime', or
\* the requested date when there is no summary or it has no 'dateTime'
KeyDate(hr_data, date) ==
    IF HasSummary(hr_data) /\ ~IsNone(hr_data.heart[1].dateTime)
    THEN hr_data.heart[1].dateTime[1]
    ELSE date

\* C21: whichever parts of a heart-rate payload are present, a first sync of
\* it on a database that executes every statement succeeds and writes
\* exactly the parts that are present: the call commits, the daily row is
\* upserted iff a summary object is present, and when the intraday list is
\* present every entry of it is stored, under the requested date when the
\* summary is missing or is an empty list
C21_WritesPresentParts ==
    (rsReq.runs = 1 /\ rsReq.db = NoFault /\ PartsWellFormed(rsReq.data)) =>
        /\ hrLast.exc = "none" /\ hrLast.commits = 1
        /\ hrLast.daily_synced = 1 <=> HasSummary(rsReq.data)
        /\ HasSummary(rsReq.data) =>
              KeyDate(rsReq.data, rsReq.date) \in DOMAIN hrDaily
        /\ rsReq.data.hasIntraday =>
              /\ hrLast.intraday_synced = Len(rsReq.data.dataset)
              /\ \A i \in DOMAIN rsReq.data.dataset :
                    LET key == <<KeyDate(rsReq.data, rsReq.date),
                                 rsReq.data.dataset[i].time[1]>>
                    IN  /\ key \in DOMAIN hrIntraday
                        /\ hrIntraday[key] = rsReq.data.dataset[i].value[1]

-----------------------------------------------------------------------------
(* Scoring a session on its own *)

ScoreInit ==
    /\ \E m \in AsleepValues, e \in EfficiencyValues, a \in AwakeValues,
          r \in RestlessValues, f \in FallValues :
          scSession = ScoreFields(m, e, a, r, f)
    /\ scScore = None
    /\ year = MaxYear /\ month = 1
    /\ MonthIdle /\ HrIdle /\ RsIdle /\ AuthIdle /\ SleepIdle /\ MxIdle

Calculate ==
    /\ scScore = None
    /\ \E tie \in Ties : scScore' = Some(calculate_sleep_score(scSession, tie))
    /\ UNCHANGED <<scSession, hrVars, monthVars, rsVars, authVars, sleepVars, mxVars>>

ScoreNext == Calculate

SpecScore == ScoreInit /\ [][ScoreNext]_vars

\* the sessions C10 speaks of
InDocumentedRange(session) ==
    /\ session.minutesAsleep >= 0
    /\ \/ IsNone(session.efficiency)
       \/ session.efficiency[1] \in 0..100
    /\ session.awakeCount >= 0
    /\ session.restlessCount >= 0
    /\ session.minutesToFallAsleep >= 0

\* C10: for a session with minutesAsleep >= 0, efficiency in 0..100 (or
\* none), awakeCount >= 0, restlessCount >= 0 and minutesToFallAsleep >= 0,
\* _calculate_sleep_score returns an integer in 0..100.
C10_ScoreInRange ==
    (scScore # None /\ InDocumentedRange(scSession)) => scScore[1] \in 0..100

\* a scored session in range whose three components are all strictly
\* between their bounds and whose sum is half-way between two integers
C10_Witness ==
    /\ scScore # None /\ InDocumentedRange(scSession)
    /\ DurationThirds(scSession.minutesAsleep) \in 1..299
    /\ ~IsNone(scSession.efficiency) /\ scSession.efficiency[1] \in 1..99
    /\ RestorationScore(scSession.awakeCount, scSession.restlessCount,
                        scSession.minutesToFallAsleep) \in 1..99
    /\ SleepScoreTenths(scSession) % 10 = 5

\* the sessions C11 speaks of: asleep for 7 to 9 hours, no interruptions
InOptimalBand(session) ==
    /\ session.minutesAsleep \in 420..540
    /\ session.awakeCount = 0
    /\ session.restlessCount = 0
    /\ session.minutesToFallAsleep = 0

\* C11: for a session with minutesAsleep in 420..540 and no awakenings, no
\* restless counts and no minutes to fall asleep, the duration and the
\* restoration components both take their maximum of 100, so the score is
\* 60 + 0.4 * efficiency rounded (60 when efficiency is missing); for
\* minutesAsleep = 480 and efficiency = 95 it is 98, which lies in 0..100.
C11_OptimalBand ==
    (scScore # None /\ InOptimalBand(scSession)) =>
        /\ scScore[1] = (600 + 4 * QualityScore(scSession.efficiency) + 5) \div 10
        /\ (scSession.minutesAsleep = 480 /\ scSession.efficiency = Some(95)) =>
               scScore[1] = 98 /\ scScore[1] \in 0..100

\* the session of the claim's example has been scored
C11_Witness ==
    /\ scScore = Some(98)
    /\ scSession = ScoreFields(480, Some(95), 0, 0, 0)

\* C23: for any integer inputs, efficiency outside 0..100 and negative
\* counts or minutes to fall asleep included, each of the three component
\* scores is within 0..100 when the weighted sum is formed, and the score
\* returned is within 0..100
C23_ComponentsClamped ==
    scScore # None =>
        /\ DurationThirds(scSession.minutesAsleep) \in 0..300
        /\ QualityScore(scSession.efficiency) \in 0..100
        /\ RestorationScore(scSession.awakeCount, scSession.restlessCount,
                            scSession.minutesToFallAsleep) \in 0..100
        /\ scScore[1] \in 0..100

-----------------------------------------------------------------------------
(* FitbitAuth: authorize, exchange_code_for_token, refresh_access_token *)

Tokens == {"tokA", "tokB"}
Codes == {"code1"}

\* the JSON object of a token response, token_data: every field may be
\* missing, and a refresh token may be blank
TokenData(access, refresh, type, expires) ==
    [access_token |-> access, refresh_token |-> refresh,
     token_type |-> type, expires_in |-> expires]

TokenBodies ==
    {TokenData(Some(t), Some(t), Some("Bearer"), Some(28800)) : t \in Tokens}
    \cup {TokenData(Some("tokB"), None, Some("Bearer"), None),
          TokenData(Some("tokA"), Some(""), None, Some(28800)),
          TokenData(None, None, None, None)}

\* the final statuses requests.post may hand back: a success, a 3xx that is
\* not followed (300 Multiple Choices), a rejection
Statuses == {200, 300, 401}

\* what the token endpoint may answer: a status and the JSON object of the
\* body
TokenResponses ==
    {[status |-> st, access_token |-> d.access_token,
      refresh_token |-> d.refresh_token, token_type |-> d.token_type,
      expires_in |-> d.expires_in] : st \in Statuses, d \in TokenBodies}

\* the one request the callback server handles: its method and the 'code'
\* parameter of its query string (missing, blank or a code)
CallbackRequests ==
    [method : {"GET", "POST"},
     code : {None, Some("")} \cup {Some(c) : c \in Codes}]

\* response.raise_for_status()
RaisesForStatus(status) == 400 <= status /\ status < 600

\* parse_qs drops a parameter whose value is blank
ParseQsCode(request) ==
    IF request.code = Some("") THEN None ELSE request.code

\* CallbackHandler.do_GET, the only handler the server has: auth_code after
\* the request was handled
CapturedCode(request) ==
    IF request.method = "GET" THEN ParseQsCode(request) ELSE None

\* a check that lets every callback through
NoCodeNever(auth_code) == FALSE

\* line 190: if not auth_code
NoCode(auth_code) == IsNone(auth_code) \/ auth_code = Some("")

\* a check for None only
NoRefreshTokenIsNone(token) == IsNone(token)

\* line 141: if not self.refresh_token
NoRefreshToken(token) == IsNone(token) \/ token = Some("")

\* a token request that keeps the stored access token when the response
\* carries none
PostForTokensKeepAccess(op, request, response) ==
    /\ posts' = posts + 1
    /\ authOps' = authOps + 1
    /\ IF RaisesForStatus(response.status)
       THEN /\ UNCHANGED <<tokenVars, granted, restored>>
            /\ authLast' = [op |-> op, exc |-> "HTTPError", posted |-> TRUE,
                            request |-> request, response |-> response]
       ELSE /\ access_token' = IF IsNone(response.access_token)
                               THEN access_token ELSE response.access_token
            /\ refresh_token' = response.refresh_token
            /\ token_type' = response.token_type
            /\ expires_in' = response.expires_in
            /\ granted' = Some(TokenData(response.access_token, response.refresh_token,
                                         response.token_type, response.expires_in))
            /\ restored' = None
            /\ authLast' = [op |-> op, exc |-> "none", posted |-> TRUE,
                            request |-> request, response |-> response]

\* a token request that keeps the stored refresh token when the response
\* carries none
PostForTokensKeepRefresh(op, request, response) ==
    /\ posts' = posts + 1
    /\ authOps' = authOps + 1
    /\ IF RaisesForStatus(response.status)
       THEN /\ UNCHANGED <<tokenVars, granted, restored>>
            /\ authLast' = [op |-> op, exc |-> "HTTPError", posted |-> TRUE,
                            request |-> request, response |-> response]
       ELSE /\ access_token' = response.access_token
            /\ refresh_token' = IF IsNone(response.refresh_token)
                                THEN refresh_token ELSE response.refresh_token
            /\ token_type' = response.token_type
            /\ expires_in' = response.expires_in
            /\ granted' = Some(TokenData(response.access_token, response.refresh_token,
                                         response.token_type, response.expires_in))
            /\ restored' = None
            /\ authLast' = [op |-> op, exc |-> "none", posted |-> TRUE,
                            request |-> request, response |-> response]

\* lines 120-129 and 158-167: the POST and what follows it
PostForTokens(op, request, response) ==
    /\ posts' = posts + 1
    /\ authOps' = authOps + 1
    /\ IF RaisesForStatus(response.status)
       THEN /\ UNCHANGED <<tokenVars, granted, restored>>
            /\ authLast' = [op |-> op, exc |-> "HTTPError", posted |-> TRUE,
                            request |-> request, response |-> response]
       ELSE /\ access_token' = response.access_token
            /\ refresh_token' = response.refresh_token
            /\ token_type' = response.token_type
            /\ expires_in' = response.expires_in
            /\ granted' = Some(TokenData(response.access_token, response.refresh_token,
                                         response.token_type, response.expires_in))
            /\ restored' = None
            /\ authLast' = [op |-> op, exc |-> "none", posted |-> TRUE,
                            request |-> request, response |-> response]

\* an operation that raises before it sends anything
RaiseEarly(op, exc, request) ==
    /\ UNCHANGED <<tokenVars, posts, granted, restored>>
    /\ authOps' = authOps + 1
    /\ authLast' = [op |-> op, exc |-> exc, posted |-> FALSE, request |-> request,
                    response |-> NoResponse]

\* authorize, lines 178-188: the browser is opened and the server waits
AuthorizeStart ==
    /\ authPc = "idle"
    /\ authOps < MaxOps
    /\ authPc' = "waiting"
    /\ UNCHANGED <<tokenVars, posts, authOps, authLast, fileVars, granted, restored,
                   served, unserved>>
    /\ UNCHANGED <<hrVars, monthVars, rsVars, scVars, sleepVars, mxVars>>

\* a server that goes on listening after the request it handled
AuthorizeCallbackKeepsListening ==
    /\ authPc = "waiting"
    /\ \E request \in CallbackRequests, response \in TokenResponses :
          LET auth_code == CapturedCode(request) IN
          IF NoCode(auth_code)
          THEN RaiseEarly("authorize", "ValueError", request)
          ELSE PostForTokens("authorize", request, response)
    /\ authPc' = "waiting"
    /\ served' = served + 1
    /\ UNCHANGED <<fileVars, unserved>>
    /\ UNCHANGED <<hrVars, monthVars, rsVars, scVars, sleepVars, mxVars>>

\* authorize, lines 188-193: handle_request serves the request that
\* arrives, then authorize raises or exchanges the code
AuthorizeCallback ==
    /\ authPc = "waiting"
    /\ \E request \in CallbackRequests, response \in TokenResponses :
          LET auth_code == CapturedCode(request) IN
          IF NoCode(auth_code)
          THEN RaiseEarly("authorize", "ValueError", request)
          ELSE PostForTokens("authorize", request, response)
    /\ authPc' = "idle"
    /\ served' = served + 1
    /\ UNCHANGED <<fileVars, unserved>>
    /\ UNCHANGED <<hrVars, monthVars, rsVars, scVars, sleepVars, mxVars>>

\* exchange_code_for_token called on its own
Exchange ==
    /\ authPc = "idle"
    /\ authOps < MaxOps
    /\ \E response \in TokenResponses :
          PostForTokens("exchange", NoOperation.request, response)
    /\ UNCHANGED <<authPc, fileVars, served, unserved>>
    /\ UNCHANGED <<hrVars, monthVars, rsVars, scVars, sleepVars, mxVars>>

\* refresh_access_token
Refresh ==
    /\ authPc = "idle"
    /\ authOps < MaxOps
    /\ \E response \in TokenResponses :
          IF NoRefreshToken(refresh_token)
          THEN RaiseEarly("refresh", "ValueError", NoOperation.request)
          ELSE PostForTokens("refresh", NoOperation.request, response)
    /\ UNCHANGED <<authPc, fileVars, served, unserved>>
    /\ UNCHANGED <<hrVars, monthVars, rsVars, scVars, sleepVars, mxVars>>

\* json.dump of one value of token_data, a str or an int when it is not
\* None: None is written as null, a str as a quoted string, an int as a
\* number
JsonDumpBlankAsNull(value, pytype) ==
    IF IsNone(value) \/ (pytype = "str" /\ value = Some("")) THEN <<"null">>
    ELSE IF pytype = "str" THEN <<"string", value[1]>>
    ELSE <<"number", value[1]>>

JsonDump(value, pytype) ==
    IF IsNone(value) THEN <<"null">>
    ELSE IF pytype = "str" THEN <<"string", value[1]>>
    ELSE <<"number", value[1]>>

\* json.load of one value, then token_data.get: null is read as None
JsonLoad(text) ==
    IF text[1] = "null" THEN None ELSE Some(text[2])

\* save_tokens, lines 249-257: the four fields are written as one JSON
\* object, whatever the file held
Save ==
    /\ authPc = "idle"
    /\ authOps < MaxOps
    /\ tokenFile' = Some(TokenData(JsonDump(access_token, "str"),
                                   JsonDump(refresh_token, "str"),
                                   JsonDump(token_type, "str"),
                                   JsonDump(expires_in, "int")))
    /\ saved' = Some(tokenVars)
    /\ authOps' = authOps + 1
    /\ authLast' = [op |-> "save", exc |-> "none", posted |-> FALSE,
                    request |-> NoOperation.request, response |-> NoResponse]
    /\ UNCHANGED <<tokenVars, authPc, posts, granted, restored, served, unserved>>
    /\ UNCHANGED <<hrVars, monthVars, rsVars, scVars, sleepVars, mxVars>>

\* load_tokens, lines 265-271: open raises when the file does not exist,
\* otherwise the four fields are assigned from the object read
Load ==
    /\ authPc = "idle"
    /\ authOps < MaxOps
    /\ IF IsNone(tokenFile)
       THEN RaiseEarly("load", "FileNotFoundError", NoOperation.request)
       ELSE LET token_data == tokenFile[1] IN
            /\ access_token' = JsonLoad(token_data.access_token)
            /\ refresh_token' = JsonLoad(token_data.refresh_token)
            /\ token_type' = JsonLoad(token_data.token_type)
            /\ expires_in' = JsonLoad(token_data.expires_in)
            /\ restored' = Some(JsonLoad(token_data.access_token))
            /\ authOps' = authOps + 1
            /\ authLast' = [op |-> "load", exc |-> "none", posted |-> FALSE,
                            request |-> NoOperation.request,
                            response |-> NoResponse]
            /\ UNCHANGED <<posts, granted>>
    /\ UNCHANGED <<authPc, fileVars, served, unserved>>
    /\ UNCHANGED <<hrVars, monthVars, rsVars, scVars, sleepVars, mxVars>>

\* a request sent to the callback port while no handle_request is waiting:
\* nothing accepts it
LateRequest ==
    /\ authPc = "idle"
    /\ served > 0
    /\ unserved < MaxLate
    /\ unserved' = unserved + 1
    /\ UNCHANGED <<tokenVars, authPc, posts, authOps, authLast, fileVars, granted,
                   restored, served>>
    /\ UNCHANGED <<hrVars, monthVars, rsVars, scVars, sleepVars, mxVars>>

AuthInit ==
    /\ AuthIdle
    /\ year = MaxYear /\ month = 1
    /\ MonthIdle /\ HrIdle /\ RsIdle /\ ScIdle /\ SleepIdle /\ MxIdle

AuthNext ==
    \/ AuthorizeStart \/ AuthorizeCallback \/ Exchange \/ Refresh
    \/ Save \/ Load \/ LateRequest

SpecAuth == AuthInit /\ [][AuthNext]_vars

\* C8: when the request the callback server receives during authorize
\* carries no code parameter, authorize fails with the authorization error,
\* nothing is sent to the token endpoint and the four token fields stay as
\* they were.
C8_NoCodeNoExchange ==
    [][(authPc = "waiting" /\ authPc' = "idle" /\ IsNone(authLast'.request.code)) =>
           /\ authLast'.op = "authorize"
           /\ authLast'.exc = "ValueError"
           /\ ~authLast'.posted
           /\ posts' = posts
           /\ tokenVars' = tokenVars]_vars

\* authorize has failed on a GET callback without a code, on an instance
\* that holds tokens of an earlier authorization
C8_Witness ==
    /\ authLast.op = "authorize" /\ authLast.exc = "ValueError"
    /\ authLast.request = [method |-> "GET", code |-> None]
    /\ authPc = "idle"
    /\ access_token # None /\ refresh_token # None /\ posts = 1

\* C9: refresh_access_token called while the stored refresh token is absent
\* or empty fails with the no-refresh-token error before anything is sent
\* to the token endpoint, and leaves the four token fields as they were.
C9_RefreshNeedsToken ==
    [][(authOps' = authOps + 1 /\ authLast'.op = "refresh"
          /\ refresh_token \in {None, Some("")}) =>
           /\ authLast'.exc = "ValueError"
           /\ ~authLast'.posted
           /\ posts' = posts
           /\ tokenVars' = tokenVars]_vars

\* refresh has failed on an instance whose stored refresh token is the
\* empty string and whose access token is present
C9_Witness ==
    /\ authLast.op = "refresh" /\ authLast.exc = "ValueError"
    /\ refresh_token = Some("")
    /\ access_token # None
    /\ posts = 1

\* the four fields hold what the response carried
StoresResponse(response) ==
    /\ access_token' = response.access_token
    /\ refresh_token' = response.refresh_token
    /\ token_type' = response.token_type
    /\ expires_in' = response.expires_in

\* a step in which the named operation has sent its request to the token
\* endpoint
Posted(ops) ==
    /\ authOps' = authOps + 1
    /\ authLast'.op \in ops
    /\ authLast'.posted

\* C16: exchange_code_for_token either succeeds or changes nothing: on a
\* response whose status is not 2xx it fails with HTTPError and the four
\* token fields keep their values, on a 2xx response it stores the four
\* fields of the response and returns
C16_ExchangeAllOrNothing ==
    [][Posted({"exchange", "authorize"}) =>
          IF authLast'.response.status \in 200..299
          THEN authLast'.exc = "none" /\ StoresResponse(authLast'.response)
          ELSE authLast'.exc = "HTTPError" /\ UNCHANGED tokenVars]_vars

FileStep(op) == authOps' = authOps + 1 /\ authLast'.op = op

\* C18: load_tokens after save_tokens yields exactly the four fields that
\* were in memory when save_tokens wrote the file, whatever the memory holds
\* when load_tokens runs and whichever fields were absent; save_tokens
\* leaves the four fields in memory as they are; load_tokens of a file that
\* does not exist fails and leaves them as they are
C18_TokensRoundTrip ==
    [][/\ FileStep("save") => authLast'.exc = "none" /\ UNCHANGED tokenVars
       /\ (FileStep("load") /\ IsNone(tokenFile)) =>
             authLast'.exc = "FileNotFoundError" /\ UNCHANGED tokenVars
       /\ (FileStep("load") /\ ~IsNone(tokenFile)) =>
             authLast'.exc = "none" /\ tokenVars' = saved[1]]_vars

\* load_tokens has brought back what was saved, with a blank refresh token
\* and no token type, over the fields of a later exchange
C18_Witness ==
    /\ authLast.op = "load" /\ authLast.exc = "none"
    /\ saved = Some(<<Some("tokA"), Some(""), None, Some(28800)>>)
    /\ tokenVars = saved[1]
    /\ granted # None /\ granted[1].access_token = Some("tokB")

\* the instance as __init__ leaves it: no operation has run
Fresh == authOps = 0

\* C19 as stated: in every reachable state, an access token that is present
\* is the access token of the most recent exchange or refresh that
\* succeeded, and a fresh instance has all four token fields absent
C19_AccessTokenFromLastGrant ==
    /\ access_token # None =>
          granted # None /\ access_token = granted[1].access_token
    /\ Fresh => tokenVars = <<None, None, None, None>>

\* C19: in every reachable state, an access token that is present is the
\* access token of the most recent exchange or refresh that succeeded or,
\* when load_tokens has succeeded since then, the access token that the
\* most recent load_tokens read from the file; a fresh instance has all
\* four token fields absent
C19_AccessTokenOrigin ==
    /\ access_token # None =>
          IF restored # None
          THEN access_token = restored[1]
          ELSE granted # None /\ access_token = granted[1].access_token
    /\ Fresh => tokenVars = <<None, None, None, None>>

\* load_tokens has put back an access token that is not the one of the
\* last exchange or refresh that succeeded
C19_Witness ==
    /\ authLast.op = "load" /\ authLast.exc = "none"
    /\ access_token = Some("tokB")
    /\ restored = Some(Some("tokB"))
    /\ granted # None /\ granted[1].access_token = Some("tokA")

\* _run_callback_server returns: authorize goes on past line 188
ServerReturns == authPc = "waiting" /\ authPc' = "idle"

\* C20: the callback server handles exactly one request: it returns in the
\* step that handles a request and in no other, so it never returns while
\* no request has arrived, and a request that arrives after it has returned
\* is not handled and changes neither the captured code nor anything that
\* authorize did with it
C20_OneRequestServed ==
    [][/\ ServerReturns => served' = served + 1
       /\ served' # served => ServerReturns /\ served' = served + 1
       /\ unserved' # unserved =>
             UNCHANGED <<tokenVars, authPc, posts, authOps, authLast, served>>]_vars

\* the server has returned with the code of the one request it handled,
\* the exchange has stored tokens, and a request has arrived afterwards
C20_Witness ==
    /\ authPc = "idle"
    /\ served = 1 /\ unserved = 1
    /\ authLast.op = "authorize" /\ authLast.exc = "none"
    /\ authLast.request = [method |-> "GET", code |-> Some("code1")]
    /\ access_token = Some("tokA")

-----------------------------------------------------------------------------
(* The sleep tables.  sleep_sessions is keyed by log_id and sleep_minutes  *)
(* by (log_id, minute_time); both are written with a plain INSERT, which   *)
(* the database rejects with IntegrityError when the key is present.       *)
(* Times are seconds counted from the midnight that starts day 0.          *)

\* a statement that the database does not reject for a key that is present
InsertOutcomeNoKeyCheck(table, key, db, n) == Outcome(db, n)

\* cursor.execute of a plain INSERT as the n-th statement of the call
InsertOutcome(table, key, db, n) ==
    IF Outcome(db, n) # "ok" THEN Outcome(db, n)
    ELSE IF key \in DOMAIN table THEN "integrity"
    ELSE "ok"

\* the table after an INSERT that executed
InsertRow(table, key, row) ==
    [k \in (DOMAIN table) \cup {key} |-> IF k = key THEN row ELSE table[k]]

\* the offset of America/New_York from UTC on the winter days modelled
NewYorkUtcOffset == 18000

SecondsPerDay == 86400

\* A timestamp string is [t, form]: t the wall-clock time it denotes and
\* form what datetime.fromisoformat makes of it.
\*   "iso"    parses as it stands ("2024-01-01T23:00:00.000")
\*   "dotted" parses only once every ".000" is removed
\*            ("2024-01-01T23:00:00.000.000")
\*   "bad"    does not parse
\* line 117: fromisoformat(s.replace('.000', ''))
ParsesStripped(ts) == ts.form \in {"iso", "dotted"}
\* line 73: fromisoformat(s.replace('Z', '+00:00'))
ParsesWithOffset(ts) == ts.form = "iso"

-----------------------------------------------------------------------------
(* SleepSync._insert_sleep_minutes *)

\* a comparison of labels that regards case
LowerKeepsCase(label) == label

\* str.lower() on the labels met
Lower(label) ==
    CASE label = "DEEP"  -> "deep"
      [] label = "Light" -> "light"
      [] label = "REM"   -> "rem"
      [] label = "Wake"  -> "wake"
      [] label = "WAKE"  -> "wake"
      [] label = "Rem"   -> "rem"
      [] OTHER           -> label

\* lines 199-204 and 213: stage_map.get(stage, 0)
StageMap(stage) ==
    CASE stage = "wake"  -> 0
      [] stage = "light" -> 1
      [] stage = "deep"  -> 2
      [] stage = "rem"   -> 3
      [] OTHER           -> 0

\* lines 212-213
SleepStage(entry) ==
    StageMap(Lower(IF IsNone(entry.level) THEN "wake" ELSE entry.level[1]))

\* lines 215-220: an entry's dateTime is [t, z]; with a Z suffix (z) the
\* time is UTC and is converted to New York wall-clock time
MinuteTime(dateTime) ==
    IF dateTime.z THEN dateTime.t - NewYorkUtcOffset ELSE dateTime.t

\* lines 211-232: one INSERT per entry, at the entry's own dateTime; the
\* entry's 'seconds' is not read
RECURSIVE MinutesLoop(_, _, _, _, _)
MinutesLoop(tx, log_id, minutes_data, i, db) ==
    IF i > Len(minutes_data) THEN tx
    ELSE LET entry == minutes_data[i] IN
         IF IsNone(entry.dateTime)
         THEN [tx EXCEPT !.exc = "KeyError"]
         ELSE LET key == <<log_id, MinuteTime(entry.dateTime[1])>>
                  out == InsertOutcome(tx.minutes, key, db, tx.n + 1)
              IN  IF out = "error"
                  THEN [tx EXCEPT !.exc = "DatabaseError", !.n = tx.n + 1]
                  ELSE IF out = "integrity"
                  THEN \* except mysql.connector.IntegrityError: pass
                       MinutesLoop([tx EXCEPT !.n = tx.n + 1],
                                   log_id, minutes_data, i + 1, db)
                  ELSE MinutesLoop(
                         [tx EXCEPT !.minutes = InsertRow(tx.minutes, key,
                                                          SleepStage(entry)),
                                    !.n = tx.n + 1,
                                    !.mlog = Append(tx.mlog, key)],
                         log_id, minutes_data, i + 1, db)

insert_sleep_minutes(tx, log_id, minutes_data, db) ==
    MinutesLoop(tx, log_id, minutes_data, 1, db)

-----------------------------------------------------------------------------
(* SleepSync._insert_sleep_minutes_classic *)

\* lines 245-249 and 265-266: a classic entry's value is a string
ClassicStage(entry) ==
    LET value == IF IsNone(entry.value) THEN "3" ELSE entry.value[1]
    IN  CASE value = "1" -> 1
          [] value = "2" -> 0
          [] value = "3" -> 0
          [] OTHER       -> 0

\* lines 258-259: the entry's time of day on the date of sleep
ClassicMinuteTime(date_of_sleep, time_of_day) ==
    date_of_sleep * SecondsPerDay + time_of_day

\* lines 256-278
RECURSIVE ClassicLoop(_, _, _, _, _, _)
ClassicLoop(tx, log_id, minute_data, date_of_sleep, i, db) ==
    IF i > Len(minute_data) THEN tx
    ELSE LET entry == minute_data[i] IN
         IF IsNone(entry.dateTime)
         THEN [tx EXCEPT !.exc = "KeyError"]
         ELSE LET key == <<log_id,
                           ClassicMinuteTime(date_of_sleep, entry.dateTime[1])>>
                  out == InsertOutcome(tx.minutes, key, db, tx.n + 1)
              IN  IF out = "error"
                  THEN [tx EXCEPT !.exc = "DatabaseError", !.n = tx.n + 1]
                  ELSE IF out = "integrity"
                  THEN ClassicLoop([tx EXCEPT !.n = tx.n + 1],
                                   log_id, minute_data, date_of_sleep, i + 1, db)
                  ELSE ClassicLoop(
                         [tx EXCEPT !.minutes = InsertRow(tx.minutes, key,
                                                          ClassicStage(entry)),
                                    !.n = tx.n + 1,
                                    !.mlog = Append(tx.mlog, key)],
                         log_id, minute_data, date_of_sleep, i + 1, db)

insert_sleep_minutes_classic(tx, log_id, minute_data, date_of_sleep, db) ==
    ClassicLoop(tx, log_id, minute_data, date_of_sleep, 1, db)

-----------------------------------------------------------------------------
(* SleepSync._insert_sleep_session *)

\* lines 123-141: the columns of the row that the model keeps
SessionRow(session, sleep_score) ==
    [date_of_sleep |-> session.dateOfSleep[1],
     start_time |-> session.startTime[1].t,
     end_time |-> session.endTime[1].t,
     duration_ms |-> session.duration[1],
     efficiency |-> session.efficiency,
     sleep_score |-> sleep_score,
     awake_count |-> session.awakeCount,
     restless_count |-> session.restlessCount,
     minutes_asleep |-> session.minutesAsleep,
     minutes_to_fall_asleep |-> session.minutesToFallAsleep]

\* lines 146-149: levels is Some(data) when the session has 'levels' with
\* 'data' in it, minuteData is Some(list) when the session has 'minuteData'
InsertMinuteData(tx, session, db) ==
    IF ~IsNone(session.levels)
    THEN insert_sleep_minutes(tx, session.logId[1], session.levels[1], db)
    ELSE IF ~IsNone(session.minuteData)
    THEN insert_sleep_minutes_classic(tx, session.logId[1], session.minuteData[1],
                                      session.dateOfSleep[1], db)
    ELSE tx

\* lines 117-149; tx.exc names the exception the call ends with
insert_sleep_session(tx, session, db, tie) ==
    IF IsNone(session.startTime) THEN [tx EXCEPT !.exc = "KeyError"]
    ELSE IF ~ParsesStripped(session.startTime[1]) THEN [tx EXCEPT !.exc = "ValueError"]
    ELSE IF IsNone(session.endTime) THEN [tx EXCEPT !.exc = "KeyError"]
    ELSE IF ~ParsesStripped(session.endTime[1]) THEN [tx EXCEPT !.exc = "ValueError"]
    ELSE IF IsNone(session.logId) \/ IsNone(session.dateOfSleep)
            \/ IsNone(session.duration)
    THEN [tx EXCEPT !.exc = "KeyError"]
    ELSE LET sleep_score == calculate_sleep_score(session, tie)
             log_id == session.logId[1]
             out == InsertOutcome(tx.sessions, log_id, db, tx.n + 1)
         IN  IF out = "integrity"
             THEN [tx EXCEPT !.exc = "IntegrityError", !.n = tx.n + 1]
             ELSE IF out = "error"
             THEN [tx EXCEPT !.exc = "DatabaseError", !.n = tx.n + 1]
             ELSE InsertMinuteData(
                      [tx EXCEPT !.sessions = InsertRow(tx.sessions, log_id,
                                                  SessionRow(session, sleep_score)),
                                 !.n = tx.n + 1],
                      session, db)

-----------------------------------------------------------------------------
(* SleepSync.sync_sleep_date *)

\* the cursor on a fresh transaction over the committed store
BeginSleepTx(sessions, minutes) ==
    [sessions |-> sessions, minutes |-> minutes, exc |-> "none", n |-> 0,
     sessions_synced |-> 0, mlog |-> <<>>, trace |-> <<>>]

\* which minute data a session carries
MinuteDataForm(session) ==
    IF ~IsNone(session.levels) THEN "levels"
    ELSE IF ~IsNone(session.minuteData) THEN "classic"
    ELSE "none"

\* the inner 'except Exception' (lines 83-84): whatever the backfill r
\* ended with, the handler goes on without an exception
Swallowed(r, backfill) ==
    [tx |-> [r EXCEPT !.exc = "none"], backfill |-> backfill, backfillExc |-> r.exc]

Escaped(r, backfill) ==
    [tx |-> r, backfill |-> backfill, backfillExc |-> r.exc]

\* a handler whose inner try does not catch: a failure of the backfill
\* leaves it as the exception of the call
ConflictHandlerNoCatch(tx, session, db) ==
    IF ~ParsesWithOffset(session.startTime[1])
    THEN Escaped([tx EXCEPT !.exc = "ValueError"], "none")
    ELSE IF ~IsNone(session.levels)
    THEN Escaped(insert_sleep_minutes([tx EXCEPT !.exc = "none"],
                     session.logId[1], session.levels[1], db), "levels")
    ELSE IF ~IsNone(session.minuteData)
    THEN Escaped(insert_sleep_minutes_classic([tx EXCEPT !.exc = "none"],
                     session.logId[1], session.minuteData[1],
                     session.dateOfSleep[1], db), "classic")
    ELSE Escaped([tx EXCEPT !.exc = "none"], "none")

\* lines 70-84, except mysql.connector.IntegrityError: the start time is
\* parsed again and the minute data inserted, all inside a try whose
\* 'except Exception' only prints.  backfill names the insert that was
\* called and backfillExc the exception the try swallowed.
ConflictHandler(tx, session, db) ==
    IF ~ParsesWithOffset(session.startTime[1])
    THEN Swallowed([tx EXCEPT !.exc = "ValueError"], "none")
    ELSE IF ~IsNone(session.levels)
    THEN Swallowed(insert_sleep_minutes([tx EXCEPT !.exc = "none"],
                       session.logId[1], session.levels[1], db), "levels")
    ELSE IF ~IsNone(session.minuteData)
    THEN Swallowed(insert_sleep_minutes_classic([tx EXCEPT !.exc = "none"],
                       session.logId[1], session.minuteData[1],
                       session.dateOfSleep[1], db), "classic")
    ELSE Swallowed([tx EXCEPT !.exc = "none"], "none")

\* one entry of the trace of a call
TraceEntry(session, insertExc, outcome, backfill, backfillExc) ==
    [session |-> session, insertExc |-> insertExc, outcome |-> outcome,
     backfill |-> backfill, backfillExc |-> backfillExc]

\* the transaction with one more entry in its trace
Traced(tx, entry) == [tx EXCEPT !.trace = Append(tx.trace, entry)]

RECURSIVE SessionLoop(_, _, _, _, _)

\* after the handler of IntegrityError: an exception that left the handler
\* ends the loop, otherwise the next session is taken
AfterConflict(h, sessions, i, db, tie) ==
    IF h.tx.exc # "none"
    THEN Traced(h.tx, TraceEntry(sessions[i], "IntegrityError", "aborted",
                                 h.backfill, h.backfillExc))
    ELSE SessionLoop(
           Traced(h.tx, TraceEntry(sessions[i], "IntegrityError", "exists",
                                   h.backfill, h.backfillExc)),
           sessions, i + 1, db, tie)

\* lines 68-86: what follows _insert_sleep_session, which ended as r.  The
\* handler of any other exception prints sleep_session["logId"], which
\* raises KeyError out of the loop when the session has no logId.
AfterInsert(r, sessions, i, db, tie) ==
    IF r.exc = "none"
    THEN SessionLoop(
           Traced([r EXCEPT !.sessions_synced = r.sessions_synced + 1],
                  TraceEntry(sessions[i], "none", "synced", "none", "none")),
           sessions, i + 1, db, tie)
    ELSE IF r.exc = "IntegrityError"
    THEN AfterConflict(ConflictHandler(r, sessions[i], db), sessions, i, db, tie)
    ELSE IF IsNone(sessions[i].logId)
    THEN Traced([r EXCEPT !.exc = "KeyError"],
                TraceEntry(sessions[i], r.exc, "aborted", "none", "none"))
    ELSE SessionLoop(
           Traced([r EXCEPT !.exc = "none"],
                  TraceEntry(sessions[i], r.exc, "error", "none", "none")),
           sessions, i + 1, db, tie)

\* lines 67-86: the loop over the sessions
SessionLoop(tx, sessions, i, db, tie) ==
    IF i > Len(sessions) THEN tx
    ELSE AfterInsert(insert_sleep_session(tx, sessions[i], db, tie),
                     sessions, i, db, tie)

\* lines 88-90 when the loop ended without an exception: commit and return
\* the count.  No exit path rolls back: when an exception left the loop the
\* transaction stays open (txOpen) and its writes are not committed.
EndSleepTx(sessions, minutes, tx, nsessions) ==
    IF tx.exc = "none"
    THEN [sessions |-> tx.sessions, minutes |-> tx.minutes,
          raised |-> FALSE, exc |-> "none",
          commits |-> 1, rollbacks |-> 0, txOpen |-> FALSE,
          sessions_synced |-> tx.sessions_synced,
          nsessions |-> nsessions, trace |-> tx.trace, statements |-> tx.n]
    ELSE [sessions |-> sessions, minutes |-> minutes,
          raised |-> TRUE, exc |-> tx.exc,
          commits |-> 0, rollbacks |-> 0, txOpen |-> TRUE,
          sessions_synced |-> 0,
          nsessions |-> nsessions, trace |-> tx.trace, statements |-> tx.n]

\* fetch = [ok, sleep]: what self.fitbit_client.get_sleep_log(date) did.
\* lib.client.FitbitClient defines no get_sleep_log, so with it line 58
\* raises AttributeError (ok is FALSE); a client object that provides the
\* method returns a payload, whose 'sleep' is Some(list) or missing.
\* The result names the committed store after the call and what the caller
\* sees.
sync_sleep_date(sessions, minutes, fetch, db, tie) ==
    IF ~fetch.ok
    THEN [sessions |-> sessions, minutes |-> minutes,
          raised |-> TRUE, exc |-> "AttributeError",
          commits |-> 0, rollbacks |-> 0, txOpen |-> FALSE,
          sessions_synced |-> 0, nsessions |-> 0, trace |-> <<>>,
          statements |-> 0]
    ELSE IF IsNone(fetch.sleep) \/ fetch.sleep = Some(<<>>)
    THEN \* line 60: if not sleep_data.get('sleep'): return 0
         [sessions |-> sessions, minutes |-> minutes,
          raised |-> FALSE, exc |-> "none",
          commits |-> 0, rollbacks |-> 0, txOpen |-> FALSE,
          sessions_synced |-> 0, nsessions |-> 0, trace |-> <<>>,
          statements |-> 0]
    ELSE EndSleepTx(sessions, minutes,
                    SessionLoop(BeginSleepTx(sessions, minutes),
                                fetch.sleep[1], 1, db, tie),
                    Len(fetch.sleep[1]))

-----------------------------------------------------------------------------
(* What the Fitbit API may answer for sleep *)

Timestamp(t, form) == [t |-> t, form |-> form]

IntervalEntry(level, t, z, seconds) ==
    [level |-> level, dateTime |-> Some([t |-> t, z |-> z]), seconds |-> seconds]
ClassicEntry(time_of_day, value) ==
    [dateTime |-> Some(time_of_day), value |-> value]

\* a deep interval of two and a half minutes, then a light minute
LevelsData == <<IntervalEntry(Some("deep"), 0, FALSE, 150),
                IntervalEntry(Some("light"), 150, FALSE, 60)>>
\* an entry without 'dateTime' after a good one
LevelsDataNoTime == <<IntervalEntry(Some("REM"), 60, TRUE, 60),
                      [level |-> Some("wake"), dateTime |-> None, seconds |-> 30]>>
\* two entries for the same minute, then another minute
MinuteData == <<ClassicEntry(0, Some("1")), ClassicEntry(0, Some("3")),
                ClassicEntry(60, Some("2"))>>
\* the night of LevelsData staged otherwise
LevelsDataRestaged == <<IntervalEntry(Some("light"), 0, FALSE, 60),
                        IntervalEntry(Some("rem"), 60, FALSE, 60)>>
MinuteDataNoTime == <<ClassicEntry(120, None),
                      [dateTime |-> None, value |-> Some("1")]>>

SleepSession(logId, startTime, levels, minuteData, minutesAsleep) ==
    [logId |-> logId, dateOfSleep |-> Some(1),
     startTime |-> startTime, endTime |-> Some(Timestamp(28800, "iso")),
     duration |-> Some(28800000),
     minutesAsleep |-> minutesAsleep, efficiency |-> Some(95),
     awakeCount |-> 0, restlessCount |-> 0, minutesToFallAsleep |-> 0,
     levels |-> levels, minuteData |-> minuteData]

Iso == Some(Timestamp(0, "iso"))

\* sessions of two nights in both forms, with and without minute data, one
\* re-fetched with another duration, and sessions that are malformed
SleepSessions ==
    { SleepSession(Some(1), Iso, Some(LevelsData), None, 480),
      SleepSession(Some(1), Iso, None, Some(MinuteData), 405),
      SleepSession(Some(1), Some(Timestamp(0, "dotted")), Some(LevelsDataRestaged),
                   None, 480),
      SleepSession(Some(2), Iso, Some(LevelsDataNoTime), None, 300),
      SleepSession(Some(2), Iso, None, Some(MinuteDataNoTime), 300),
      SleepSession(Some(2), Iso, None, None, 300),
      SleepSession(Some(2), Some(Timestamp(0, "bad")), Some(LevelsData), None, 480),
      SleepSession(None, Iso, Some(LevelsData), None, 480) }

\* the lists of at most n sessions
SessionLists(n) == UNION {[1..k -> SleepSessions] : k \in 0..n}

NoSleepClient == [ok |-> FALSE, sleep |-> None]
SleepFetched(sleep) == [ok |-> TRUE, sleep |-> sleep]
SleepFetches ==
    {NoSleepClient, SleepFetched(None)}
    \cup {SleepFetched(Some(l)) : l \in SessionLists(MaxSessions)}

\* the object a SleepSync is constructed with: a lib.client.FitbitClient,
\* whose auth holds an access token or not and whose API answers a request
\* with some status, or an object of another class that provides
\* get_sleep_log and returns a payload
SleepClients ==
    [kind : {"FitbitClient"}, has_token : BOOLEAN, status : Statuses, sleep : {None}]
    \cup {[kind |-> "other", has_token |-> TRUE, status |-> 200, sleep |-> f.sleep] :
             f \in SleepFetches \ {NoSleepClient}}

\* line 58, self.fitbit_client.get_sleep_log(date): FitbitClient defines
\* get_user_profile, the get_heart_rate methods, get_devices and
\* get_activity_summary and no get_sleep_log, so on a FitbitClient the
\* attribute lookup raises AttributeError before any request is made
get_sleep_log(client) ==
    IF client.kind = "FitbitClient" THEN NoSleepClient
    ELSE SleepFetched(client.sleep)

\* a fault at the INSERT of a session row or at one of the minute INSERTs
\* that follow it
SleepFaults == {NoFault} \cup
               [at : 1..(2 * MaxSessions + 1), kind : {"integrity", "error"}]

-----------------------------------------------------------------------------
(* sync_sleep.main: one call of sync_sleep_date per run, over the store    *)
(* that earlier runs committed                                             *)

SleepInit ==
    /\ year = MaxYear /\ month = 1
    /\ MonthIdle /\ HrIdle /\ RsIdle /\ ScIdle /\ AuthIdle /\ SleepIdle /\ MxIdle

\* the store and the record of the call after a call that ended as r;
\* faulted tells whether the statement that db fails was executed
ApplySleepSync(r, db, client) ==
    /\ slSessions' = r.sessions
    /\ slMinutes' = r.minutes
    /\ slLast' = [raised |-> r.raised, exc |-> r.exc,
                  commits |-> r.commits, rollbacks |-> r.rollbacks,
                  txOpen |-> r.txOpen,
                  sessions_synced |-> r.sessions_synced,
                  nsessions |-> r.nsessions, trace |-> r.trace,
                  faulted |-> db.at \in 1..r.statements,
                  client |-> [kind |-> client.kind, has_token |-> client.has_token,
                              status |-> client.status],
                  fetched |-> get_sleep_log(client).ok]

\* lines 329-343: connect, sync, close.  close() ends the connection, and
\* with it a transaction the call left open.
SyncSleep ==
    /\ slCalls < MaxSleepCalls
    /\ \E client \in SleepClients, db \in SleepFaults, tie \in Ties :
          ApplySleepSync(sync_sleep_date(slSessions, slMinutes,
                                         get_sleep_log(client), db, tie),
                         db, client)
    /\ slCalls' = slCalls + 1
    /\ UNCHANGED <<hrVars, monthVars, rsVars, scVars, authVars, mxVars>>

SleepNext == SyncSleep

SpecSleep == SleepInit /\ [][SleepNext]_vars

\* C5: when the INSERT of a session row is rejected with IntegrityError
\* (the log_id is already stored), the call does not raise there: the
\* handler reads the start time again and calls the minute insert of the
\* form the session carries (levels.data before minuteData), whatever that
\* attempt raises is swallowed, the session counts as existing, and the
\* loop goes on to the next session; when it was the last one the call
\* commits and returns.
C5_ConflictBackfills ==
    \A i \in DOMAIN slLast.trace :
        LET e == slLast.trace[i] IN
        e.insertExc = "IntegrityError" =>
            /\ e.outcome = "exists"
            /\ e.backfill = (IF e.session.startTime[1].form = "iso"
                             THEN MinuteDataForm(e.session) ELSE "none")
            /\ (i < slLast.nsessions => Len(slLast.trace) > i)
            /\ (i = slLast.nsessions => ~slLast.raised /\ slLast.commits = 1)

\* a session whose log_id was stored by an earlier run conflicts, its
\* backfill fails on an entry without dateTime, and the session after it
\* is synced
C5_Witness ==
    /\ slCalls = 2 /\ ~slLast.raised /\ Len(slLast.trace) = 2
    /\ slLast.trace[1].insertExc = "IntegrityError"
    /\ slLast.trace[1].session.logId = Some(2)
    /\ slLast.trace[1].backfill = "levels"
    /\ slLast.trace[1].backfillExc = "KeyError"
    /\ slLast.trace[2].outcome = "synced"
    /\ 2 \in DOMAIN slSessions /\ 1 \in DOMAIN slSessions

\* C12: a call of sync_sleep_date that obtained a cursor (its payload has
\* sessions) ends, returning or raising, with commit or rollback called on
\* the connection: its transaction is not left open.
C12_TransactionReleased ==
    slLast.nsessions > 0 =>
        /\ ~slLast.txOpen
        /\ slLast.commits + slLast.rollbacks = 1

\* C13: a session whose processing raises anything but IntegrityError is
\* recorded as failed, every session of the list is processed, and the
\* call returns.
C13_BadSessionNeverAborts ==
    \A i \in DOMAIN slLast.trace :
        slLast.trace[i].insertExc \notin {"none", "IntegrityError"} =>
            /\ slLast.trace[i].outcome = "error"
            /\ Len(slLast.trace) = slLast.nsessions
            /\ ~slLast.raised

\* the session rows that a call committed: the log_ids stored after it that
\* were not stored before it
CommittedBy(before, after) == DOMAIN after \ DOMAIN before

\* C22: the number a call of sync_sleep_date returns is the number of
\* session rows it committed, and a session whose processing raised, which
\* is not counted, has no session row committed by the call
C22_CountMatchesCommitted ==
    [][(slCalls' = slCalls + 1 /\ ~slLast'.raised) =>
          /\ slLast'.sessions_synced =
                Cardinality(CommittedBy(slSessions, slSessions'))
          /\ \A i \in DOMAIN slLast'.trace :
                (/\ slLast'.trace[i].outcome = "error"
                 /\ ~IsNone(slLast'.trace[i].session.logId)) =>
                    slLast'.trace[i].session.logId[1]
                        \notin CommittedBy(slSessions, slSessions')]_vars

\* C25: a sleep sync constructed with a FitbitClient fetches its payload
\* through that client: when the client's auth holds an access token and
\* the API answers 2xx, the fetch of sync_sleep_date returns the payload,
\* so the call goes on to its writes; otherwise the call raises and
\* writes nothing
C25_SleepFetchThroughClient ==
    [][(slCalls' = slCalls + 1 /\ slLast'.client.kind = "FitbitClient") =>
          IF slLast'.client.has_token /\ slLast'.client.status \in 200..299
          THEN slLast'.fetched /\ slLast'.exc # "AttributeError"
          ELSE slLast'.raised /\ UNCHANGED <<slSessions, slMinutes>>]_vars

\* the session carries every field that the row is built from
HasRowFields(session) ==
    /\ ~IsNone(session.logId) /\ ~IsNone(session.dateOfSleep)
    /\ ~IsNone(session.startTime) /\ ~IsNone(session.endTime)
    /\ ~IsNone(session.duration)

\* C14: sleep_sessions holds one row per log_id; a sync never changes or
\* removes a row that is stored, and a row it adds is the row built, score
\* included, from the session of its payload whose INSERT was not
\* rejected: a later payload for the same log_id leaves the row and its
\* score as the first insert made them.
C14_SessionRowFirstInsert ==
    [][/\ \A id \in DOMAIN slSessions :
              id \in DOMAIN slSessions' /\ slSessions'[id] = slSessions[id]
       /\ \A id \in (DOMAIN slSessions') \ (DOMAIN slSessions) :
              \E i \in DOMAIN slLast'.trace, tie \in Ties :
                  /\ slLast'.trace[i].insertExc # "IntegrityError"
                  /\ HasRowFields(slLast'.trace[i].session)
                  /\ slLast'.trace[i].session.logId = Some(id)
                  /\ slSessions'[id] =
                        SessionRow(slLast'.trace[i].session,
                                   calculate_sleep_score(slLast'.trace[i].session, tie))]_vars

\* the row of log_id 1 was inserted from a payload with 480 minutes asleep
\* (score 98), and a later sync carried 405 minutes asleep for the same
\* log_id and was rejected
C14_Witness ==
    /\ slCalls = 2
    /\ 1 \in DOMAIN slSessions
    /\ slSessions[1].minutes_asleep = 480 /\ slSessions[1].sleep_score = 98
    /\ Len(slLast.trace) >= 1
    /\ slLast.trace[1].insertExc = "IntegrityError"
    /\ slLast.trace[1].session.logId = Some(1)
    /\ slLast.trace[1].session.minutesAsleep = 405
    /\ ~slLast.raised

\* the entries of a list before the first one without 'dateTime'
TimedPrefix(data) ==
    LET untimed == {j \in DOMAIN data : IsNone(data[j].dateTime)}
    IN  IF untimed = {} THEN data
        ELSE SubSeq(data, 1, (CHOOSE j \in untimed : \A k \in untimed : j <= k) - 1)

\* the minute rows that the minute data of a session asks for, in order
MinuteWrites(session) ==
    IF ~IsNone(session.levels)
    THEN LET data == TimedPrefix(session.levels[1])
         IN  [j \in DOMAIN data |->
                 [key |-> <<session.logId[1], MinuteTime(data[j].dateTime[1])>>,
                  stage |-> SleepStage(data[j])]]
    ELSE IF ~IsNone(session.minuteData)
    THEN LET data == TimedPrefix(session.minuteData[1])
         IN  [j \in DOMAIN data |->
                 [key |-> <<session.logId[1],
                            ClassicMinuteTime(session.dateOfSleep[1],
                                              data[j].dateTime[1])>>,
                  stage |-> ClassicStage(data[j])]]
    ELSE <<>>

\* in a call in which no statement failed: the minute insert of the
\* session of this trace entry was called
RanMinuteInsert(e) ==
    \/ e.outcome = "synced"
    \/ e.outcome = "exists" /\ e.backfill # "none"
    \/ /\ e.outcome = "error" /\ e.insertExc = "KeyError"
       /\ HasRowFields(e.session)
       /\ ParsesStripped(e.session.startTime[1])
       /\ ParsesStripped(e.session.endTime[1])

\* the minute rows asked for by the sessions i.. of a trace, in order
RECURSIVE TraceWrites(_, _)
TraceWrites(trace, i) ==
    IF i > Len(trace) THEN <<>>
    ELSE (IF RanMinuteInsert(trace[i]) THEN MinuteWrites(trace[i].session) ELSE <<>>)
         \o TraceWrites(trace, i + 1)

\* C15: sleep_minutes holds one row per (log_id, minute); a sync never
\* changes or removes a row that is stored, and in a call that committed
\* with no statement failing every minute row asked for, in either form, is
\* stored afterwards (an insert rejected for its key neither raises nor
\* stops the inserts after it) with, for a key not stored before, the stage
\* of the first entry of the call that asked for it.
C15_MinuteFirstWriteWins ==
    [][/\ \A key \in DOMAIN slMinutes :
              key \in DOMAIN slMinutes' /\ slMinutes'[key] = slMinutes[key]
       /\ (slCalls' = slCalls + 1 /\ slLast'.commits = 1 /\ ~slLast'.faulted) =>
              LET writes == TraceWrites(slLast'.trace, 1)
              IN  /\ \A j \in DOMAIN writes : writes[j].key \in DOMAIN slMinutes'
                  /\ \A key \in (DOMAIN slMinutes') \ (DOMAIN slMinutes) :
                         \E j \in DOMAIN writes :
                             /\ writes[j].key = key
                             /\ \A k \in 1..(j - 1) : writes[k].key # key
                             /\ slMinutes'[key] = writes[j].stage]_vars

\* minute 0 of log_id 1 was first written as light; a later sync asked for
\* it as deep, was skipped for it, and inserted the minute after it; the
\* classic payload of the same sync asked twice for one minute
C15_Witness ==
    /\ slCalls = 2 /\ slLast.commits = 1 /\ ~slLast.faulted
    /\ Len(slLast.trace) = 2
    /\ slLast.trace[1].outcome = "exists" /\ slLast.trace[1].backfill = "levels"
    /\ slLast.trace[1].session.levels = Some(LevelsData)
    /\ slLast.trace[2].outcome = "exists" /\ slLast.trace[2].backfill = "classic"
    /\ <<1, 0>> \in DOMAIN slMinutes /\ slMinutes[<<1, 0>>] = 1
    /\ <<1, 150>> \in DOMAIN slMinutes
    /\ <<1, SecondsPerDay>> \in DOMAIN slMinutes
    /\ slMinutes[<<1, SecondsPerDay>>] = 1
    /\ <<1, SecondsPerDay + 60>> \in DOMAIN slMinutes

-----------------------------------------------------------------------------
(* _insert_sleep_minutes on one interval entry, into empty tables *)

LevelLabels == {"wake", "light", "deep", "rem", "DEEP", "Light", "asleep"}

IntervalEntries ==
    {IntervalEntry(level, t, z, 30 * h) :
        level \in {None} \cup {Some(l) : l \in LevelLabels},
        t \in {0, 90, 3600}, z \in BOOLEAN, h \in 0..MaxHalfMinutes}

MinutesInit ==
    /\ year = MaxYear /\ month = 1
    /\ MonthIdle /\ HrIdle /\ RsIdle /\ ScIdle /\ AuthIdle /\ SleepIdle
    /\ mxEntries \in {<<e>> : e \in IntervalEntries}
    /\ mxDone = FALSE

ExpandMinutes ==
    /\ ~mxDone
    /\ slMinutes' = insert_sleep_minutes(BeginSleepTx(slSessions, slMinutes),
                                         1, mxEntries, NoFault).minutes
    /\ mxDone' = TRUE
    /\ UNCHANGED <<mxEntries, slSessions, slLast, slCalls>>
    /\ UNCHANGED <<hrVars, monthVars, rsVars, scVars, authVars>>

MinutesNext == ExpandMinutes

SpecMinutes == MinutesInit /\ [][MinutesNext]_vars

\* C6: an interval entry {level, dateTime, seconds} is expanded into
\* exactly floor(seconds / 60) minute records, at minute offsets
\* 0 .. floor(seconds / 60) - 1 from the entry's start, all with the
\* entry's stage, and into nothing else.
C6_IntervalExpansion ==
    mxDone =>
        LET entry == mxEntries[1]
            start == MinuteTime(entry.dateTime[1])
            whole == entry.seconds \div 60
        IN  /\ DOMAIN slMinutes = {<<1, start + 60 * k>> : k \in 0..(whole - 1)}
            /\ \A key \in DOMAIN slMinutes : slMinutes[key] = SleepStage(entry)

-----------------------------------------------------------------------------
(* The minute data of one session, one entry in either form, into empty    *)
(* tables                                                                   *)

\* labels of interval entries: the four stages in several spellings and
\* labels that are no stage
StageLabels == {"wake", "light", "deep", "rem", "WAKE", "Light", "DEEP", "Rem",
                "asleep", "restless"}

\* codes of classic entries: the three codes and others
ClassicCodes == {"1", "2", "3", "0", "4", "asleep"}

StageSessions ==
    {SleepSession(Some(1), Iso, Some(<<IntervalEntry(level, t, z, 60)>>), None, 480) :
        level \in {None} \cup {Some(l) : l \in StageLabels},
        t \in {0, 90}, z \in BOOLEAN}
    \cup
    {[SleepSession(Some(1), Iso, None, Some(<<ClassicEntry(tod, value)>>), 480)
          EXCEPT !.dateOfSleep = Some(d)] :
        value \in {None} \cup {Some(c) : c \in ClassicCodes},
        tod \in {0, 60, SecondsPerDay - 60}, d \in {0, 1}}

StagesInit ==
    /\ year = MaxYear /\ month = 1
    /\ MonthIdle /\ HrIdle /\ RsIdle /\ ScIdle /\ AuthIdle /\ SleepIdle
    /\ mxEntries \in {<<s>> : s \in StageSessions}
    /\ mxDone = FALSE

\* _insert_sleep_session, lines 146-149, for the session
StoreStages ==
    /\ ~mxDone
    /\ slMinutes' = InsertMinuteData(BeginSleepTx(slSessions, slMinutes),
                                     mxEntries[1], NoFault).minutes
    /\ mxDone' = TRUE
    /\ UNCHANGED <<mxEntries, slSessions, slLast, slCalls>>
    /\ UNCHANGED <<hrVars, monthVars, rsVars, scVars, authVars>>

StagesNext == StoreStages

SpecStages == StagesInit /\ [][StagesNext]_vars

\* the spellings of a stage name that differ from it in case only
Spellings(name) ==
    CASE name = "wake"  -> {"wake", "WAKE", "Wake"}
      [] name = "light" -> {"light", "LIGHT", "Light"}
      [] name = "deep"  -> {"deep", "DEEP", "Deep"}
      [] name = "rem"   -> {"rem", "REM", "Rem"}

\* the documented stage of an interval label
DocumentedStage(level) ==
    IF IsNone(level) THEN 0
    ELSE IF level[1] \in Spellings("light") THEN 1
    ELSE IF level[1] \in Spellings("deep") THEN 2
    ELSE IF level[1] \in Spellings("rem") THEN 3
    ELSE 0

\* the documented stage of a classic code
DocumentedClassicStage(value) ==
    IF value = Some("1") THEN 1 ELSE 0

\* C24: stage normalization is total and matches the documented mapping:
\* an interval label is matched without regard to case, wake 0, light 1,
\* deep 2, rem 3, any other or missing label 0; a classic code "1" gives 1,
\* "2" and "3" give 0, any other or missing code 0; every stored stage is
\* in 0..3; and a classic entry yields exactly one record, at the session's
\* date combined with the entry's time of day
C24_StageNormalization ==
    mxDone =>
        LET session == mxEntries[1] IN
        /\ \A key \in DOMAIN slMinutes : slMinutes[key] \in 0..3
        /\ ~IsNone(session.levels) =>
              /\ Cardinality(DOMAIN slMinutes) = 1
              /\ \A key \in DOMAIN slMinutes :
                    slMinutes[key] = DocumentedStage(session.levels[1][1].level)
        /\ ~IsNone(session.minuteData) =>
              /\ DOMAIN slMinutes =
                    {<<1, session.dateOfSleep[1] * 86400
                            + session.minuteData[1][1].dateTime[1]>>}
              /\ \A key \in DOMAIN slMinutes :
                    slMinutes[key] =
                        DocumentedClassicStage(session.minuteData[1][1].value)

\* an interval entry labelled "Rem" has been stored as stage 3
C24_Witness ==
    /\ mxDone
    /\ ~IsNone(mxEntries[1].levels)
    /\ mxEntries[1].levels[1][1].level = Some("Rem")
    /\ \E key \in DOMAIN slMinutes : slMinutes[key] = 3

====
